---- MODULE Spec2Model ----
(***************************************************************************)
(* Model of the reprogistry reproduction pipeline: scripts/cache-version   *)
(* (load, reproduce, performComparison, dedupe, sort, persist),            *)
(* scripts/cache (the multi-version writer), scripts/versions (the         *)
(* staleness check) and scripts/compare (the comparison engine).           *)
(* Further specifications follow one part in detail: SpecBuild (node       *)
(* provisioning and the build inside reproduce), SpecComparison (one       *)
(* performComparison call), SpecVersions (the packument lookup of          *)
(* versions) and SpecUrl (the normalization of repository URLs).           *)
(*                                                                         *)
(* One package version's history file is modelled.  Timestamps are        *)
(* ISO instants; tool versions are semantic versions                       *)
(* <<major, minor, patch, prerelease>>.                                    *)
(***************************************************************************)
EXTENDS Integers, Sequences, FiniteSets, TLC

VARIABLES
    pc,          \* position of the running script ("idle" between runs)
    script,      \* which script ran last: "none", "cache-version", "cache", "versions"
    outcome,     \* how the last run ended: "none", "persisted", "skipped", "failed"
    runs,        \* number of script runs started so far
    disk,        \* the version's stored history file (a sequence of entries)
    existing,    \* cache-version: the loaded array (entries carry an object identity)
    packed,      \* reproduce: integrity captured by npmPack ("none", "same", "other")
    npmVersion,  \* reproduce: version returned by getNpmVersion
    buildError,  \* reproduce: message caught by the inner try ("none" when no error)
    returned,    \* reproduce: "pending", "false" or "result"
    result,      \* reproduce: the ReproduceResult (meaningful when returned = "result")
    runHash,     \* COMPARISON_HASH of the running script
    installs,    \* dependency-install commands executed in the current run
    attempt,     \* installWithRetry: loop counter
    check,       \* versions: last staleness check (tool, hash, selected)
    packageTree, \* compare: published tree, path -> content
    sourceTree,  \* compare: rebuilt tree, path -> content
    comparison,  \* compare: result of compareDirectories
    filtered,    \* compare: result of filterNonMatching(comparison)
    mani,        \* reproduce: the manifest (repository url, directory, gitHead)
    remote,      \* reproduce: the remote's tags as met by the tag lookup
    source,      \* reproduce: location, ref and path of the source spec
    log,         \* reproduce: warnings written to the console
    publishTime, \* reproduce: publish time of the version ("null" when unknown)
    commands,    \* clone, install and pack commands executed in the current run
    stage,       \* cache: pipeline stage of each version of the list
    existingData, \* cache: versions whose stored history has been read
    cursor,      \* cache: position of the loop over results
    errors,      \* cache: versions whose comparison failed, in order
    once,        \* dedupe study: history after appending the result once
    twice,       \* dedupe study: history after appending the result twice
    nvm,         \* reproduce: isNvmAvailable()
    originalNodeVersion,  \* reproduce: mani._nodeVersion, clamped to the minimum
    installedNodeVersion, \* reproduce: what ensureNodeVersion returned
    distIntegrity, \* reproduce: mani.dist.integrity
    tried,       \* ensureNodeVersion: the requests passed to tryInstallNode, in order
    ran,         \* reproduce: npm commands executed and the node each ran under
    built,       \* reproduce: strategy, reproduced and source.integrity of the result
    tempDir,     \* performComparison: whether the temporary directory exists
    candidates,  \* findWorkingRepoUrl: reachability of each fallback URL, in order
    clonedFrom,  \* cloneWithFallback: URL the source was cloned from
    thrown,      \* performComparison: the error it rejected with
    caught,      \* installWithRetry: the error caught by the latest attempt
    executed,    \* installWithRetry: install commands executed
    persisted,   \* cache-version: source.location of the result written to disk
    lookup,      \* versions: outcome of pacote.packument
    verified,    \* versions: status of the direct registry request
    outputs,     \* versions: values passed to setOutput
    given,       \* url study: the repository URL
    normal,      \* url study: normalizeGitUrl(given)
    renormal,    \* url study: normalizeGitUrl(normal)
    tierInput,   \* getTier: the argument
    tierName,    \* getTier: the name returned
    manifest,    \* installWithRetry: package.json, section -> declared names
    installedWith, \* installWithRetry: the manifest each install ran on
    repos,       \* findWorkingRepoUrl: repository URLs of the packument
    reach,       \* isRepoReachable: the clone URLs that answer
    probed,      \* findWorkingRepoUrl: clone URLs probed, in order
    cloneLog,    \* cloneWithFallback: clone commands run, in order
    dataFile,    \* history file of the version: "absent", "corrupt" or "valid"
    gitRef,      \* performComparison: the ref taken from the source spec
    cacheDir,    \* reproduce: the repo cache directory of the package
    fetchHead,   \* reproduce: FETCH_HEAD of the cache directory
    workTree,    \* reproduce: the commit checked out when install starts
    summary      \* precompute: the per-version summary

vars == <<pc, script, outcome, runs, disk, existing, packed, npmVersion, buildError,
          returned, result, runHash, installs, attempt, check,
          mani, remote, source, log, publishTime, commands,
          packageTree, sourceTree, comparison, filtered,
          stage, existingData, cursor, errors, once, twice,
          nvm, originalNodeVersion, installedNodeVersion, distIntegrity, tried, ran,
          built, tempDir, candidates, clonedFrom, thrown, caught, executed, persisted,
          lookup, verified, outputs, given, normal, renormal,
          tierInput, tierName, manifest, installedWith, repos, reach, probed, cloneLog,
          dataFile, gitRef, cacheDir, fetchHead, workTree, summary>>

pipelineVars == <<pc, script, outcome, runs, disk, existing, packed, npmVersion,
                  buildError, returned, result, runHash, installs, attempt, check,
                  mani, remote, source, log, publishTime, commands>>

reproduceVars == <<mani, remote, source, log, publishTime, commands>>

compareVars == <<packageTree, sourceTree, comparison, filtered>>

dedupeVars == <<once, twice>>

multiVars == <<stage, existingData, cursor, errors>>

buildVars == <<nvm, originalNodeVersion, installedNodeVersion, distIntegrity, tried, ran,
               built>>

fetchVars == <<tempDir, candidates, clonedFrom, thrown, caught, executed, persisted>>

lookupVars == <<lookup, verified, outputs>>

urlVars == <<given, normal, renormal>>

tierVars == <<tierInput, tierName>>

installVars == <<manifest, installedWith>>

searchVars == <<repos, reach, probed, cloneLog>>

loadVars == <<dataFile>>

refVars == <<gitRef>>

checkoutVars == <<cacheDir, fetchHead, workTree>>

summaryVars == <<summary>>

studyVars == <<tierVars, installVars, searchVars, loadVars, refVars, checkoutVars,
               summaryVars>>

detailVars == <<buildVars, fetchVars, lookupVars, urlVars, studyVars>>

(***************************************************************************)
(* Bounds                                                                  *)
(***************************************************************************)
\* runs of cache-version followed step by step
MaxRuns == 2

\* entries a history may hold before a further run is started
MaxLen == 3

\* versions the range of a multi-version run selects
MaxVersions == 3

\* pieces (scheme, "git+", "git@") a repository URL may carry before its host
MaxPieces == 3

\* largest score handed to getTier, in ten-thousandths
MaxScore == 10050

(***************************************************************************)
(* Semantic versions                                                       *)
(***************************************************************************)
V(ma, mi, pa, pre) == <<ma, mi, pa, pre>>

\* tool versions that stamp results ("x.y.z-local" for the inlined module)
ToolVersions == {V(1, 9, 0, "local"), V(1, 10, 0, "local")}

NpmVersions == {V(4, 6, 1, ""), V(5, 0, 0, "")}

NPM_BEFORE_VERSION == V(5, 0, 0, "")

NoVersion == V(0, 0, 0, "")

Sign(n) == IF n < 0 THEN -1 ELSE IF n > 0 THEN 1 ELSE 0

\* semver.compare: numeric on major, minor, patch; then a version with a
\* prerelease sorts before the same version without one
semverCompare(a, b) ==
    IF a[1] # b[1] THEN Sign(a[1] - b[1])
    ELSE IF a[2] # b[2] THEN Sign(a[2] - b[2])
    ELSE IF a[3] # b[3] THEN Sign(a[3] - b[3])
    ELSE IF a[4] = b[4] THEN 0
    ELSE IF a[4] = "" THEN 1
    ELSE IF b[4] = "" THEN -1
    ELSE 0

gte(a, b) == semverCompare(a, b) >= 0

(***************************************************************************)
(* Lexical (string) comparison of rendered versions                        *)
(***************************************************************************)
RECURSIVE Digits(_)
Digits(n) == IF n < 10 THEN <<48 + n>> ELSE Digits(n \div 10) \o <<48 + (n % 10)>>

\* "x.y.z" or "x.y.z-local" as character codes
Render(v) ==
    Digits(v[1]) \o <<46>> \o Digits(v[2]) \o <<46>> \o Digits(v[3])
        \o (IF v[4] = "" THEN <<>> ELSE <<45, 108, 111, 99, 97, 108>>)

RECURSIVE SeqCompare(_, _)
SeqCompare(s, t) ==
    IF s = <<>> /\ t = <<>> THEN 0
    ELSE IF s = <<>> THEN -1
    ELSE IF t = <<>> THEN 1
    ELSE IF Head(s) # Head(t) THEN Sign(Head(s) - Head(t))
    ELSE SeqCompare(Tail(s), Tail(t))

lexicalCompare(a, b) == SeqCompare(Render(a), Render(b))

(***************************************************************************)
(* Entries                                                                 *)
(***************************************************************************)
\* ISO instants <<year, month, day>> that `new Date().toISOString()` stamps
Timestamps == {<<2024, 1, 31>>, <<2024, 2, 1>>}

NoTimestamp == <<1970, 1, 1>>

\* Number(new Date(iso)): a number that orders instants as epoch
\* milliseconds do
Date(iso) == (iso[1] * 12 + (iso[2] - 1)) * 31 + (iso[3] - 1)

\* git blob hashes of two revisions of scripts/compare.mjs
Hashes == {"blob-a", "blob-b"}

NoHash == "blob-none"

\* a stored EnhancedResult: tool version, timestamp, whether a diff with a
\* summary is present, comparison-logic hash
Entry(rv, ts, diff, hash) == [rv |-> rv, ts |-> ts, diff |-> diff, hash |-> hash]

NoResult == Entry(NoVersion, NoTimestamp, FALSE, NoHash)

\* a loaded entry is a fresh object: JSON.parse never shares objects
Obj(e, oid) == [rv |-> e.rv, ts |-> e.ts, diff |-> e.diff, hash |-> e.hash, oid |-> oid]

Strip(o) == Entry(o.rv, o.ts, o.diff, o.hash)

JSONparse(file) == [i \in 1..Len(file) |-> Obj(file[i], i)]

JSONstringify(arr) == [i \in 1..Len(arr) |-> Strip(arr[i])]

(***************************************************************************)
(* cache-version: dedupe by reproduceVersion                               *)
(***************************************************************************)
\* `x.diff && x.diff.summary`: undefined when absent, else the summary
\* object itself, whose identity is that of the entry that owns it
diffSummary(r) == IF r.diff THEN <<"object", r.oid>> ELSE <<"undefined">>

truthy(v) == v[1] = "object"

\* mutant: the lookup never finds the key
KeyNeverFound(map, key) == 0

\* mutant: the lookup only sees the key inserted last
KeyOfLastOnly(map, key) ==
    IF Len(map) > 0 /\ map[Len(map)].rv = key THEN Len(map) ELSE 0

\* byReproduceVersion.get(key): a Map keeps its keys in first-insertion
\* order; it is modelled as the sequence of its values, the key of a value
\* being its reproduceVersion; 0 stands for "no such key"
mapIndex(map, key) ==
    IF \E i \in 1..Len(map) : map[i].rv = key
    THEN CHOOSE i \in 1..Len(map) : map[i].rv = key
    ELSE 0

\* mutant: the diff preference is dropped, only the timestamp decides
setLatestOnly(map, r) ==
    LET i == mapIndex(map, r.rv) IN
    IF i = 0 THEN Append(map, r)
    ELSE IF Date(r.ts) > Date(map[i].ts) THEN [map EXCEPT ![i] = r] ELSE map

\* one iteration of the loop over `existing`
byReproduceVersionSet(map, r) ==
    LET i == mapIndex(map, r.rv) IN
    IF i = 0 THEN Append(map, r)
    ELSE LET prev == map[i]
             prevHasDiff == diffSummary(prev)
             currHasDiff == diffSummary(r)
         IN  IF truthy(currHasDiff) /\ ~truthy(prevHasDiff)
             THEN [map EXCEPT ![i] = r]
             ELSE IF currHasDiff = prevHasDiff
                  THEN IF Date(r.ts) > Date(prev.ts) THEN [map EXCEPT ![i] = r] ELSE map
                  ELSE map

RECURSIVE byReproduceVersionFrom(_, _)
byReproduceVersionFrom(arr, map) ==
    IF arr = <<>> THEN map
    ELSE byReproduceVersionFrom(Tail(arr), byReproduceVersionSet(map, Head(arr)))

\* [...byReproduceVersion.values()]
byReproduceVersion(arr) == byReproduceVersionFrom(arr, <<>>)

(***************************************************************************)
(* Sorting: Array.prototype.sort is stable                                 *)
(***************************************************************************)
\* mutant: tool versions compared as strings
dedupedCompareLexical(a, b) ==
    LET dA == Date(a.ts)
        dB == Date(b.ts)
    IN  IF dA # dB THEN dA - dB ELSE lexicalCompare(a.rv, b.rv)

\* comparator of deduped.sort in cache-version
dedupedCompare(a, b) ==
    LET dA == Date(a.ts)
        dB == Date(b.ts)
    IN  IF dA # dB THEN dA - dB ELSE semverCompare(a.rv, b.rv)

RECURSIVE dedupedInsert(_, _)
dedupedInsert(sorted, x) ==
    IF sorted = <<>> THEN <<x>>
    ELSE LET last == sorted[Len(sorted)] IN
         IF dedupedCompare(last, x) <= 0 THEN Append(sorted, x)
         ELSE Append(dedupedInsert(SubSeq(sorted, 1, Len(sorted) - 1), x), last)

RECURSIVE dedupedSortFrom(_, _)
dedupedSortFrom(arr, sorted) ==
    IF arr = <<>> THEN sorted
    ELSE dedupedSortFrom(Tail(arr), dedupedInsert(sorted, Head(arr)))

dedupedSort(arr) == dedupedSortFrom(arr, <<>>)

\* every entry of one history file carries the file's own package version
PackageVersion == V(1, 0, 0, "")

\* comparator of existing.sort in cache
existingCompare(a, b) ==
    LET dA == Date(a.ts)
        dB == Date(b.ts)
    IN  IF dA # dB THEN dA - dB
        ELSE LET vv == semverCompare(PackageVersion, PackageVersion) IN
             IF vv # 0 THEN vv ELSE semverCompare(a.rv, b.rv)

RECURSIVE existingInsert(_, _)
existingInsert(sorted, x) ==
    IF sorted = <<>> THEN <<x>>
    ELSE LET last == sorted[Len(sorted)] IN
         IF existingCompare(last, x) <= 0 THEN Append(sorted, x)
         ELSE Append(existingInsert(SubSeq(sorted, 1, Len(sorted) - 1), x), last)

RECURSIVE existingSortFrom(_, _)
existingSortFrom(arr, sorted) ==
    IF arr = <<>> THEN sorted
    ELSE existingSortFrom(Tail(arr), existingInsert(sorted, Head(arr)))

existingSort(arr) == existingSortFrom(arr, <<>>)

(***************************************************************************)
(* versions: the staleness check                                           *)
(***************************************************************************)
RECURSIVE findLast(_, _)
findLast(arr, reproduceVersion) ==
    IF arr = <<>> THEN 0
    ELSE IF arr[Len(arr)].rv = reproduceVersion THEN Len(arr)
    ELSE findLast(SubSeq(arr, 1, Len(arr) - 1), reproduceVersion)

\* mutant: Array.prototype.find, the first entry of the tool version
missingReprosFind(history, reproduceVersion, COMPARISON_HASH) ==
    IF ~(Len(history) > 0) THEN TRUE
    ELSE LET i == mapIndex(history, reproduceVersion) IN
         IF i = 0 THEN TRUE
         ELSE IF ~history[i].diff \/ history[i].hash # COMPARISON_HASH THEN TRUE
         ELSE FALSE

\* the filter predicate of missingRepros for one version
missingRepros(history, reproduceVersion, COMPARISON_HASH) ==
    IF ~(Len(history) > 0) THEN TRUE
    ELSE LET i == findLast(history, reproduceVersion) IN
         IF i = 0 THEN TRUE
         ELSE IF ~history[i].diff \/ history[i].hash # COMPARISON_HASH THEN TRUE
         ELSE FALSE

(***************************************************************************)
(* The pipeline of one package version                                     *)
(***************************************************************************)
maxRetries == 5

PublishTime == "2019-01-01T00:00:00.000Z"

Install(by, before) == [by |-> by, before |-> before]

NoCheck == [tool |-> NoVersion, hash |-> NoHash, selected |-> TRUE]

\* a shell command run by the pipeline: "clone", "install" or "pack", the
\* function that ran it, and the directory it ran in relative to the root
\* of the clone (<<>> is the root)
Command(cmd, by, cwd) == [cmd |-> cmd, by |-> by, cwd |-> cwd]

\* A repository URL: the pieces before the host (scheme, "git+", "git@"),
\* the host, the separator after the host, the path segments, and whether
\* the last segment ends in ".git".
Url(prefix, host, sep, path, dotgit) ==
    [prefix |-> prefix, host |-> host, sep |-> sep, path |-> path, dotgit |-> dotgit]

\* mani.repository or mani.repository.url is missing
NoUrl == Url(<<>>, "", "", <<>>, FALSE)

\* git+https://github.com/o/r.git
GitPlusHttpsUrl == Url(<<"git+", "https://">>, "github.com", "/", <<"o", "r">>, TRUE)

\* https://github.com/o/r/tree/main/packages/b
TreeUrl ==
    Url(<<"https://">>, "github.com", "/", <<"o", "r", "tree", "main", "packages", "b">>, FALSE)

\* git@github.com:o/r.git
ScpUrl == Url(<<"git@">>, "github.com", ":", <<"o", "r">>, TRUE)

\* git+https://gitlab.com/o/r.git
OtherHostUrl == Url(<<"git+", "https://">>, "gitlab.com", "/", <<"o", "r">>, TRUE)

\* git@gitlab.com:o/r.git
OtherHostScpUrl == Url(<<"git@">>, "gitlab.com", ":", <<"o", "r">>, TRUE)

\* repository.directory of the manifest: path segments, <<>> when absent
Directories == {<<>>, <<"packages", "a">>}

\* mani.gitHead: <<>> when absent
GitHeads == {<<>>, <<"0a1b2c3">>}

\* mani.version and the tag `v${mani.version}`, as pieces of text
ManiVersion == <<"1.0.0">>

VTag == <<"v">> \o ManiVersion

Manifest(url, directory, gitHead) ==
    [url |-> url, directory |-> directory, gitHead |-> gitHead]

NoManifest == Manifest(NoUrl, <<>>, <<>>)

Manifests ==
    {Manifest(u, d, g) : u \in {GitPlusHttpsUrl, TreeUrl}, d \in Directories, g \in GitHeads}
    \cup {Manifest(u, <<>>, g) : u \in {ScpUrl, NoUrl, OtherHostUrl, OtherHostScpUrl},
                                g \in GitHeads}

\* .replace(/^git\+/, '')
replaceGitPlus(u) ==
    IF u.prefix # <<>> /\ Head(u.prefix) = "git+"
    THEN [u EXCEPT !.prefix = Tail(@)]
    ELSE u

\* .replace(/^git:\/\//, 'https://')
replaceGitScheme(u) ==
    IF u.prefix # <<>> /\ Head(u.prefix) = "git://"
    THEN [u EXCEPT !.prefix = <<"https://">> \o Tail(@)]
    ELSE u

\* .replace(/^ssh:\/\/git@github\.com\//, 'https://github.com/')
replaceSshGithub(u) ==
    IF u.prefix = <<"ssh://", "git@">> /\ u.host = "github.com" /\ u.sep = "/"
    THEN [u EXCEPT !.prefix = <<"https://">>]
    ELSE u

\* .replace(/^git@github\.com:/, 'https://github.com/')
replaceScpGithub(u) ==
    IF u.prefix = <<"git@">> /\ u.host = "github.com" /\ u.sep = ":"
    THEN [u EXCEPT !.prefix = <<"https://">>, !.sep = "/"]
    ELSE u

normalizedUrl(u) == replaceScpGithub(replaceSshGithub(replaceGitScheme(replaceGitPlus(u))))

\* new URL(normalizedUrl) does not throw: the text starts with a scheme
canParse(u) ==
    /\ u.prefix # <<>>
    /\ Head(u.prefix) \in {"https://", "git://", "ssh://"}
    /\ u.sep = "/"

\* mutant: every host is accepted
anyHost(host) == TRUE

\* parsed.host !== 'github.com'
supportedHost(host) == host = "github.com"

\* reproduce goes on past the repository checks
tracked(m) ==
    /\ m.url # NoUrl
    /\ canParse(normalizedUrl(m.url))
    /\ supportedHost(normalizedUrl(m.url).host)

\* treeMatch / branchMatch on the pathname: the repository and the
\* subdirectory of a /tree/ or /blob/ URL
extractedSubdir(u) ==
    IF Len(u.path) >= 5 /\ u.path[3] \in {"tree", "blob"}
    THEN SubSeq(u.path, 5, Len(u.path))
    ELSE <<>>

location(u) == SubSeq(u.path, 1, 2)

\* repo.directory || extractedSubdir
effectiveDirectory(m) ==
    IF m.directory # <<>> THEN m.directory ELSE extractedSubdir(normalizedUrl(m.url))

\* normalizeGitUrl of repo-fallback's import
normalizeGitUrl(u) == normalizedUrl(u)

\* parseSourceLocation(result.source.location).subdir
parseSourceLocationSubdir(loc) ==
    LET url == normalizeGitUrl(loc) IN
    IF /\ url.prefix = <<"https://">>
       /\ url.host = "github.com"
       /\ url.sep = "/"
       /\ Len(url.path) >= 5
       /\ url.path[3] = "tree"
    THEN SubSeq(url.path, 5, Len(url.path))
    ELSE <<>>

\* names of tags a remote may hold: 1.0.0, v1.0.0 and pkg/1.0.0
TagNames == {ManiVersion, VTag, <<"pkg", "/">> \o ManiVersion}

\* what the tag lookup met: the remote repository's tags, or no answer
Remote(reachable, tags) == [reachable |-> reachable, tags |-> tags]

NoRemote == Remote(FALSE, {})

Remotes == {NoRemote} \cup {Remote(TRUE, tags) : tags \in SUBSET TagNames}

\* String.prototype.endsWith on pieces of text
endsWith(text, suffix) ==
    /\ Len(text) >= Len(suffix)
    /\ SubSeq(text, Len(text) - Len(suffix) + 1, Len(text)) = suffix

refsTags(name) == <<"refs", "/", "tags", "/">> \o name

\* git ls-remote --tags <url> <pattern>...: the refs whose name is a
\* pattern or ends in "/" followed by a pattern
lsRemoteTags(remoteRepo, patterns) ==
    IF ~remoteRepo.reachable THEN {}
    ELSE {refsTags(t) : t \in {n \in remoteRepo.tags :
                                  \E p \in patterns : endsWith(refsTags(n), <<"/">> \o p)}}

\* mutant: the v-prefixed tag is preferred over the exact one
refFromTagsVFirst(lines) ==
    IF \E l \in lines : endsWith(l, refsTags(VTag)) THEN VTag
    ELSE IF \E l \in lines : endsWith(l, refsTags(ManiVersion)) THEN ManiVersion
    ELSE <<>>

\* exactMatch, then vMatch, among the lines of the lookup
refFromTags(lines) ==
    IF \E l \in lines : endsWith(l, refsTags(ManiVersion)) THEN ManiVersion
    ELSE IF \E l \in lines : endsWith(l, refsTags(VTag)) THEN VTag
    ELSE <<>>

\* mutant: no fallback to HEAD
refNoFallback(gitHead, remoteRepo) ==
    IF gitHead # <<>> THEN gitHead
    ELSE refFromTags(lsRemoteTags(remoteRepo, {VTag, ManiVersion}))

\* the ref reproduce settles on
selectRef(gitHead, remoteRepo) ==
    LET tagged == IF gitHead # <<>> THEN gitHead
                  ELSE refFromTags(lsRemoteTags(remoteRepo, {VTag, ManiVersion}))
    IN  IF tagged = <<>> THEN <<"HEAD">> ELSE tagged

\* the parts of `github:${location}#${ref}${repoPath}`
Source(loc, ref, repoPath) == [location |-> loc, ref |-> ref, repoPath |-> repoPath]

NoSource == Source(<<>>, <<>>, <<>>)

HeadWarning == "Warning: No gitHead or version tag found, using HEAD"

ReproduceIdle ==
    /\ mani = NoManifest
    /\ remote = NoRemote
    /\ source = NoSource
    /\ log = {}
    /\ publishTime = "null"
    /\ commands = {}

\* positions in the `versions` array of cache
Versions == 1..MaxVersions

MultiIdle ==
    /\ stage = [v \in Versions |-> "pending"]
    /\ existingData = {}
    /\ cursor = 0
    /\ errors = <<>>

CompareIdle ==
    /\ packageTree = <<>>
    /\ sourceTree = <<>>
    /\ comparison = <<>>
    /\ filtered = <<>>

DedupeIdle ==
    /\ once = <<>>
    /\ twice = <<>>

\* the strategy, reproduced flag and source.integrity of a ReproduceResult
Built(strategy, reproduced, integrity) ==
    [strategy |-> strategy, reproduced |-> reproduced, integrity |-> integrity]

NoBuilt == Built(<<>>, FALSE, "null")

BuildIdle ==
    /\ nvm = FALSE
    /\ originalNodeVersion = NoVersion
    /\ installedNodeVersion = NoVersion
    /\ distIntegrity = "undefined"
    /\ tried = <<>>
    /\ ran = {}
    /\ built = NoBuilt

\* an Error: its message and the install attempt that raised it (0 when
\* it was not raised by an install)
Error(message, at) == [message |-> message, at |-> at]

NoError == Error("none", 0)

FetchIdle ==
    /\ tempDir = "absent"
    /\ candidates = <<>>
    /\ clonedFrom = "none"
    /\ thrown = NoError
    /\ caught = NoError
    /\ executed = 0
    /\ persisted = "none"

\* what pacote.packument did: resolved with a document or rejected with a code
\* (hasVersions: the document has a `versions` object; versions: its keys)
Lookup(settled, code, hasVersions, versions) ==
    [settled |-> settled, code |-> code, hasVersions |-> hasVersions, versions |-> versions]

NoLookup == Lookup("pending", "none", FALSE, <<>>)

\* the values handed to setOutput: missingRepros is the list that is joined
\* with "||" (the empty list for the empty string)
Outputs(written, missing, removed, removedReason) ==
    [written |-> written, missingRepros |-> missing, removed |-> removed,
     removedReason |-> removedReason]

NoOutputs == Outputs({}, <<>>, "unset", "unset")

LookupIdle ==
    /\ lookup = NoLookup
    /\ verified = 0
    /\ outputs = NoOutputs

UrlIdle ==
    /\ given = NoUrl
    /\ normal = NoUrl
    /\ renormal = NoUrl

\* a JavaScript value handed to getTier: its typeof (or "null"), whether it
\* is NaN, and a number in ten-thousandths
Arg(type, nan, value) == [type |-> type, nan |-> nan, value |-> value]

TierIdle ==
    /\ tierInput = Arg("undefined", FALSE, 0)
    /\ tierName = "none"

InstallIdle ==
    /\ manifest = <<>>
    /\ installedWith = <<>>

SearchIdle ==
    /\ repos = <<>>
    /\ reach = {}
    /\ probed = <<>>
    /\ cloneLog = <<>>

LoadIdle == dataFile = "valid"

RefIdle == gitRef = <<>>

\* a commit: the repository that holds it and what names it there ("ref":
\* the ref of the source spec, "tip": the head of the default branch,
\* "old": what an earlier run left)
Commit(repo, name) == [repo |-> repo, name |-> name]

NoCommit == Commit("none", "none")

CheckoutIdle ==
    /\ cacheDir = "absent"
    /\ fetchHead = NoCommit
    /\ workTree = NoCommit

\* what processVersion returns: null, or the timestamp of an entry and
\* whether it carries a score (a diff with a summary)
Summary(present, timestamp, scored) ==
    [present |-> present, timestamp |-> timestamp, scored |-> scored]

NoSummary == Summary(FALSE, NoTimestamp, FALSE)

SummaryIdle == summary = NoSummary

StudyIdle ==
    /\ TierIdle
    /\ InstallIdle
    /\ SearchIdle
    /\ LoadIdle
    /\ RefIdle
    /\ CheckoutIdle
    /\ SummaryIdle

DetailIdle ==
    /\ BuildIdle
    /\ FetchIdle
    /\ LookupIdle
    /\ UrlIdle
    /\ StudyIdle

Init ==
    /\ pc = "idle"
    /\ script = "none"
    /\ outcome = "none"
    /\ runs = 0
    /\ disk = <<>>
    /\ existing = <<>>
    /\ packed = "none"
    /\ npmVersion = NoVersion
    /\ buildError = "none"
    /\ returned = "pending"
    /\ result = NoResult
    /\ runHash = NoHash
    /\ installs = {}
    /\ attempt = 0
    /\ check = NoCheck
    /\ ReproduceIdle
    /\ CompareIdle
    /\ DedupeIdle
    /\ MultiIdle
    /\ DetailIdle

ComparisonFailed == "Comparison failed"

\* mutant: process.exit does not end the script, which goes on to the push
exitIgnored(code) ==
    /\ pc' = "persist"
    /\ outcome' = IF code = 0 THEN "skipped" ELSE "failed"

\* process.exit(code) of cache-version
exit(code) ==
    /\ pc' = "idle"
    /\ outcome' = IF code = 0 THEN "skipped" ELSE "failed"

\* cache-version starts: COMPARISON_HASH is imported, the history is loaded
cacheVersionLoad ==
    /\ pc = "idle"
    /\ runs < MaxRuns
    /\ runs' = runs + 1
    /\ script' = "cache-version"
    /\ outcome' = "none"
    /\ \E h \in Hashes : runHash' = h
    /\ existing' = JSONparse(disk)
    /\ pc' = "reproduce"
    /\ packed' = "none"
    /\ npmVersion' = NoVersion
    /\ buildError' = "none"
    /\ returned' = "pending"
    /\ result' = NoResult
    /\ installs' = {}
    /\ attempt' = 0
    /\ check' = NoCheck
    /\ mani' = NoManifest
    /\ remote' = NoRemote
    /\ source' = NoSource
    /\ log' = {}
    /\ publishTime' = "null"
    /\ commands' = {}
    /\ UNCHANGED <<disk, compareVars, dedupeVars, multiVars, detailVars>>

\* reproduce: the manifest, its repository URL and the host check
reproduceManifest ==
    /\ pc = "reproduce"
    /\ \E m \in Manifests :
         /\ mani' = m
         /\ IF tracked(m)
            THEN pc' = "ref" /\ UNCHANGED returned
            ELSE returned' = "false" /\ pc' = "reproduced"
    /\ UNCHANGED <<script, outcome, runs, disk, existing, packed, npmVersion, buildError,
                   result, runHash, installs, attempt, check, remote, source, log,
                   publishTime, commands, compareVars, dedupeVars, multiVars, detailVars>>

\* reproduce: location, subdirectory, ref and source spec; the remote is
\* consulted only when the manifest records no gitHead
reproduceRef ==
    /\ pc = "ref"
    /\ \E r \in Remotes :
         /\ remote' = IF mani.gitHead # <<>> THEN NoRemote ELSE r
         /\ LET ref == selectRef(mani.gitHead, remote')
                dir == effectiveDirectory(mani)
            IN  /\ source' = Source(location(normalizedUrl(mani.url)), ref,
                                    IF dir # <<>> THEN <<"::path:">> \o dir ELSE <<>>)
                /\ log' = IF mani.gitHead = <<>>
                             /\ refFromTags(lsRemoteTags(remote', {VTag, ManiVersion})) = <<>>
                          THEN log \cup {HeadWarning}
                          ELSE log
    /\ pc' = "publishTime"
    /\ UNCHANGED <<script, outcome, runs, disk, existing, packed, npmVersion, buildError,
                   returned, result, runHash, installs, attempt, check, mani,
                   publishTime, commands, compareVars, dedupeVars, multiVars, detailVars>>

\* reproduce: getNpmVersion and the publish time of the packument; a
\* missing publish time throws to the outer catch, which returns false
reproducePublishTime ==
    /\ pc = "publishTime"
    /\ \E time \in {"null", PublishTime}, npm \in NpmVersions :
         /\ npmVersion' = npm
         /\ publishTime' = time
         /\ IF time = "null"
            THEN returned' = "false" /\ pc' = "reproduced"
            ELSE pc' = "clone" /\ UNCHANGED returned
    /\ UNCHANGED <<script, outcome, runs, disk, existing, packed, buildError, result,
                   runHash, installs, attempt, check, mani, remote, source, log,
                   commands, compareVars, dedupeVars, multiVars, detailVars>>

\* reproduce: clone, fetch, checkout, rewriteWorkspaceDeps inside the inner try
reproduceClone ==
    /\ pc = "clone"
    /\ commands' = commands \cup {Command("clone", "reproduce", <<>>)}
    /\ \E ok \in BOOLEAN :
         IF ok
         THEN pc' = "npmInstall" /\ UNCHANGED buildError
         ELSE pc' = "result" /\ buildError' = "git"
    /\ UNCHANGED <<script, outcome, runs, disk, existing, packed, npmVersion, returned,
                   result, runHash, installs, attempt, check, mani, remote, source, log,
                   publishTime, compareVars, dedupeVars, multiVars, detailVars>>

\* gte(options.npmVersion, NPM_BEFORE_VERSION)
npmSupportsBefore(version) == gte(version, NPM_BEFORE_VERSION)

\* reproduce: npmInstall(packageDir, { before: publishTime, npmVersion })
npmInstall ==
    /\ pc = "npmInstall"
    /\ IF ~npmSupportsBefore(npmVersion)
       THEN \* thrown before any command runs, caught by the inner catch
            /\ buildError' = "npm does not support --before"
            /\ pc' = "result"
            /\ UNCHANGED <<installs, commands>>
       ELSE /\ installs' = installs \cup {Install("npmInstall", publishTime)}
            /\ commands' = commands
                             \cup {Command("install", "npmInstall", effectiveDirectory(mani))}
            /\ \E ok \in BOOLEAN :
                 IF ok
                 THEN pc' = "npmPack" /\ UNCHANGED buildError
                 ELSE pc' = "result" /\ buildError' = "install"
    /\ UNCHANGED <<script, outcome, runs, disk, existing, packed, npmVersion, returned,
                   result, runHash, attempt, check, mani, remote, source, log,
                   publishTime, compareVars, dedupeVars, multiVars, detailVars>>

\* reproduce: npmPack(packageDir, ...) and its integrity
npmPack ==
    /\ pc = "npmPack"
    /\ commands' = commands \cup {Command("pack", "npmPack", effectiveDirectory(mani))}
    /\ \E integrity \in {"none", "same", "other"} :
         /\ packed' = integrity
         /\ buildError' = IF integrity = "none" THEN "pack" ELSE "none"
    /\ pc' = "result"
    /\ UNCHANGED <<script, outcome, runs, disk, existing, npmVersion, returned,
                   result, runHash, installs, attempt, check, mani, remote, source, log,
                   publishTime, compareVars, dedupeVars, multiVars, detailVars>>

\* reproduce: the result object is built and returned
reproduceResult ==
    /\ pc = "result"
    /\ \E rv \in ToolVersions, now \in Timestamps : result' = Entry(rv, now, FALSE, NoHash)
    /\ returned' = "result"
    /\ pc' = "reproduced"
    /\ UNCHANGED <<script, outcome, runs, disk, existing, packed, npmVersion, buildError,
                   runHash, installs, attempt, check, reproduceVars, compareVars, dedupeVars, multiVars, detailVars>>

\* cache-version: `if (!result) process.exit(0)`
cacheVersionReproduced ==
    /\ pc = "reproduced"
    /\ IF returned = "false"
       THEN exit(0)
       ELSE pc' = "performComparison" /\ UNCHANGED outcome
    /\ UNCHANGED <<script, runs, disk, existing, packed, npmVersion, buildError, returned,
                   result, runHash, installs, attempt, check, reproduceVars, compareVars,
                   dedupeVars, multiVars, detailVars>>

\* performComparison: download, clone, fetch, checkout, rewriteWorkspaceDeps
performComparisonFetch ==
    /\ pc = "performComparison"
    /\ \E downloaded \in BOOLEAN, ok \in BOOLEAN :
         /\ commands' = IF downloaded
                        THEN commands \cup {Command("clone", "performComparison", <<>>)}
                        ELSE commands
         /\ IF downloaded /\ ok
            THEN pc' = "installWithRetry" /\ UNCHANGED <<outcome, log>>
            ELSE exit(1) /\ log' = log \cup {ComparisonFailed}
    /\ attempt' = 0
    /\ UNCHANGED <<script, runs, disk, existing, packed, npmVersion, buildError, returned,
                   result, runHash, installs, check, mani, remote, source,
                   publishTime, compareVars, dedupeVars, multiVars, detailVars>>

\* installWithRetry: one iteration of the loop
installWithRetry ==
    /\ pc = "installWithRetry"
    /\ attempt <= maxRetries
    /\ installs' = installs \cup {Install("installWithRetry", "none")}
    /\ commands' = commands \cup {Command("install", "installWithRetry",
                                          parseSourceLocationSubdir(mani.url))}
    /\ \E out \in {"ok", "ETARGET", "error"} :
         IF out = "ok"
         THEN pc' = "pack" /\ attempt' = 0 /\ UNCHANGED <<outcome, log>>
         ELSE IF out = "ETARGET" /\ attempt < maxRetries
         THEN pc' = "installWithRetry" /\ attempt' = attempt + 1 /\ UNCHANGED <<outcome, log>>
         ELSE exit(1) /\ attempt' = 0 /\ log' = log \cup {ComparisonFailed}
    /\ UNCHANGED <<script, runs, disk, existing, packed, npmVersion, buildError, returned,
                   result, runHash, check, mani, remote, source, publishTime,
                   compareVars, dedupeVars, multiVars, detailVars>>

\* performComparison: getProdDeps, npm pack, extract, compareDirectories
performComparisonPack ==
    /\ pc = "pack"
    /\ commands' = commands \cup {Command("pack", "performComparison",
                                          parseSourceLocationSubdir(mani.url))}
    /\ \E ok \in BOOLEAN :
         IF ok
         THEN pc' = "persist" /\ UNCHANGED <<outcome, log>>
         ELSE exit(1) /\ log' = log \cup {ComparisonFailed}
    /\ UNCHANGED <<script, runs, disk, existing, packed, npmVersion, buildError, returned,
                   result, runHash, installs, attempt, check, mani, remote, source,
                   publishTime, compareVars, dedupeVars, multiVars, detailVars>>

\* { ...reproduceResult, comparisonHash: COMPARISON_HASH, diff }
enhancedResult(r, hash, oid) == Obj(Entry(r.rv, r.ts, TRUE, hash), oid)

\* what cache-version writes for the array `existing` after the push
deduped(arr) == JSONstringify(dedupedSort(byReproduceVersion(arr)))

\* cache-version: push, dedupe, sort, writeFile
cacheVersionPersist ==
    /\ pc = "persist"
    /\ existing' = Append(existing, enhancedResult(result, runHash, Len(existing) + 1))
    /\ disk' = deduped(existing')
    /\ outcome' = "persisted"
    /\ pc' = "idle"
    /\ UNCHANGED <<script, runs, packed, npmVersion, buildError, returned,
                   result, runHash, installs, attempt, check, reproduceVars, compareVars,
                   dedupeVars, multiVars, detailVars>>

Next ==
    \/ cacheVersionLoad
    \/ reproduceManifest
    \/ reproduceRef
    \/ reproducePublishTime
    \/ reproduceClone
    \/ npmInstall
    \/ npmPack
    \/ reproduceResult
    \/ cacheVersionReproduced
    \/ performComparisonFetch
    \/ installWithRetry
    \/ performComparisonPack
    \/ cacheVersionPersist

Spec == Init /\ [][Next]_vars

(***************************************************************************)
(* The history file under whole runs of its writers and of its reader      *)
(***************************************************************************)
scriptIdle ==
    /\ packed' = "none"
    /\ npmVersion' = NoVersion
    /\ buildError' = "none"
    /\ installs' = {}
    /\ attempt' = 0
    /\ UNCHANGED <<pc, runs, reproduceVars, compareVars, dedupeVars, multiVars, detailVars>>

\* cache-version, from load to exit
cacheVersion ==
    /\ pc = "idle"
    /\ Len(disk) < MaxLen
    /\ script' = "cache-version"
    /\ check' = NoCheck
    /\ \E h \in Hashes, rv \in ToolVersions, now \in Timestamps,
          end \in {"skipped", "failed", "persisted"} :
         /\ runHash' = h
         /\ outcome' = end
         /\ IF end = "skipped"
            THEN \* reproduce returned false: process.exit(0)
                 /\ returned' = "false"
                 /\ result' = NoResult
                 /\ existing' = JSONparse(disk)
                 /\ UNCHANGED disk
            ELSE IF end = "failed"
            THEN \* performComparison threw: process.exit(1)
                 /\ returned' = "result"
                 /\ result' = Entry(rv, now, FALSE, NoHash)
                 /\ existing' = JSONparse(disk)
                 /\ UNCHANGED disk
            ELSE /\ returned' = "result"
                 /\ result' = Entry(rv, now, FALSE, NoHash)
                 /\ existing' = Append(JSONparse(disk),
                                       enhancedResult(result', h, Len(disk) + 1))
                 /\ disk' = deduped(existing')
    /\ scriptIdle

\* cache (first variant): one iteration of the loop over results; the diff
\* is attached only when performComparison returned a comparison
cacheAppendOptionalDiff ==
    /\ pc = "idle"
    /\ Len(disk) < MaxLen
    /\ script' = "cache"
    /\ check' = NoCheck
    /\ \E rv \in ToolVersions, now \in Timestamps, h \in Hashes, compared \in BOOLEAN :
         /\ result' = Entry(rv, now, FALSE, NoHash)
         /\ runHash' = h
         /\ existing' = Append(JSONparse(disk), Obj(Entry(rv, now, compared, h), Len(disk) + 1))
         /\ disk' = JSONstringify(existingSort(existing'))
    /\ outcome' = "persisted"
    /\ returned' = "result"
    /\ scriptIdle

\* cache (second variant): a failed comparison is recorded as an error and
\* the version is skipped, otherwise the result is appended with its diff
cacheAppend ==
    /\ pc = "idle"
    /\ Len(disk) < MaxLen
    /\ script' = "cache"
    /\ check' = NoCheck
    /\ \E rv \in ToolVersions, now \in Timestamps, h \in Hashes, compared \in BOOLEAN :
         /\ result' = Entry(rv, now, FALSE, NoHash)
         /\ runHash' = h
         /\ IF compared
            THEN /\ existing' = Append(JSONparse(disk), Obj(Entry(rv, now, TRUE, h), Len(disk) + 1))
                 /\ disk' = JSONstringify(existingSort(existing'))
                 /\ outcome' = "persisted"
            ELSE /\ existing' = JSONparse(disk)
                 /\ outcome' = "failed"
                 /\ UNCHANGED disk
    /\ returned' = "result"
    /\ scriptIdle

\* versions: the missingRepros filter applied to this version
versionsMissingRepros ==
    /\ pc = "idle"
    /\ script' = "versions"
    /\ outcome' = "none"
    /\ \E tool \in ToolVersions, h \in Hashes :
         /\ runHash' = h
         /\ check' = [tool |-> tool, hash |-> h, selected |-> missingRepros(disk, tool, h)]
    /\ existing' = JSONparse(disk)
    /\ result' = NoResult
    /\ returned' = "pending"
    /\ UNCHANGED disk
    /\ scriptIdle

NextCache ==
    \/ cacheVersion
    \/ cacheAppendOptionalDiff
    \/ cacheAppend
    \/ versionsMissingRepros

SpecCache == Init /\ [][NextCache]_vars

(***************************************************************************)
(* A multi-version run of cache (SpecMulti)                                *)
(*                                                                         *)
(* The stages of a version: "pending", then "fetch" and "build" inside     *)
(* reproduce, which settles as "result" or "false"; in the loop over       *)
(* results a false is "skipped" and a result goes through                  *)
(* "performComparison" to "persisted" or "failed".  What is written to a   *)
(* history is the subject of cacheAppend above.                            *)
(***************************************************************************)
InitMulti ==
    /\ pc = "start"
    /\ script = "cache"
    /\ outcome = "none"
    /\ runs = 0
    /\ disk = <<>>
    /\ existing = <<>>
    /\ packed = "none"
    /\ npmVersion = NoVersion
    /\ buildError = "none"
    /\ returned = "pending"
    /\ result = NoResult
    /\ runHash = NoHash
    /\ installs = {}
    /\ attempt = 0
    /\ check = NoCheck
    /\ ReproduceIdle
    /\ CompareIdle
    /\ DedupeIdle
    /\ MultiIdle
    /\ DetailIdle

multiFrame == UNCHANGED <<script, runs, disk, existing, packed, npmVersion, buildError,
                          returned, result, runHash, installs, attempt, check,
                          reproduceVars, compareVars, dedupeVars, detailVars>>

\* versions.map(async (v) => reproduce(...)): every call is started, in
\* list order, before any of them is awaited
cacheReproduceAll ==
    /\ pc = "start"
    /\ stage' = [v \in Versions |-> "fetch"]
    /\ pc' = "Promise.all"
    /\ UNCHANGED <<outcome, existingData, cursor, errors>>
    /\ multiFrame

\* one reproduce call gets its manifest: not applicable, or on to the build
reproduceFetched ==
    /\ pc = "Promise.all"
    /\ \E v \in Versions, applicable \in BOOLEAN :
         /\ stage[v] = "fetch"
         /\ stage' = [stage EXCEPT ![v] = IF applicable THEN "build" ELSE "false"]
    /\ UNCHANGED <<pc, outcome, existingData, cursor, errors>>
    /\ multiFrame

\* one reproduce call finishes clone, install and pack and returns a result
reproduceBuilt ==
    /\ pc = "Promise.all"
    /\ \E v \in Versions :
         /\ stage[v] = "build"
         /\ stage' = [stage EXCEPT ![v] = "result"]
    /\ UNCHANGED <<pc, outcome, existingData, cursor, errors>>
    /\ multiFrame

\* the stored history of one version is read and parsed
readHistory ==
    /\ pc = "Promise.all"
    /\ \E v \in Versions \ existingData : existingData' = existingData \cup {v}
    /\ UNCHANGED <<pc, outcome, stage, cursor, errors>>
    /\ multiFrame

\* both Promise.all have resolved: the loop over results begins
cacheLoopStart ==
    /\ pc = "Promise.all"
    /\ \A v \in Versions : stage[v] \in {"result", "false"}
    /\ existingData = Versions
    /\ pc' = "loop"
    /\ cursor' = 1
    /\ UNCHANGED <<outcome, stage, existingData, errors>>
    /\ multiFrame

\* `if (!result) continue`
cacheLoopSkip ==
    /\ pc = "loop"
    /\ cursor \in Versions
    /\ stage[cursor] = "false"
    /\ stage' = [stage EXCEPT ![cursor] = "skipped"]
    /\ cursor' = cursor + 1
    /\ UNCHANGED <<pc, outcome, existingData, errors>>
    /\ multiFrame

\* performComparison(result) is called and awaited
cachePerformComparison ==
    /\ pc = "loop"
    /\ cursor \in Versions
    /\ stage[cursor] = "result"
    /\ stage' = [stage EXCEPT ![cursor] = "performComparison"]
    /\ UNCHANGED <<pc, outcome, existingData, cursor, errors>>
    /\ multiFrame

\* performComparison threw: errors.push(err); continue
cacheComparisonFailed ==
    /\ pc = "loop"
    /\ cursor \in Versions
    /\ stage[cursor] = "performComparison"
    /\ stage' = [stage EXCEPT ![cursor] = "failed"]
    /\ errors' = Append(errors, cursor)
    /\ cursor' = cursor + 1
    /\ UNCHANGED <<pc, outcome, existingData>>
    /\ multiFrame

\* the enhanced result is pushed, the history sorted and written
cachePersist ==
    /\ pc = "loop"
    /\ cursor \in Versions
    /\ stage[cursor] = "performComparison"
    /\ stage' = [stage EXCEPT ![cursor] = "persisted"]
    /\ cursor' = cursor + 1
    /\ UNCHANGED <<pc, outcome, existingData, errors>>
    /\ multiFrame

\* mutant: the run never throws
neverThrows(errs) == FALSE

\* `if (errors.length > 0) throw`
throwsAtEnd(errs) == Len(errs) > 0

\* the loop is over: the script throws or ends normally
cacheExit ==
    /\ pc = "loop"
    /\ cursor \notin Versions
    /\ pc' = "done"
    /\ outcome' = IF throwsAtEnd(errors) THEN "failed" ELSE "succeeded"
    /\ UNCHANGED <<stage, existingData, cursor, errors>>
    /\ multiFrame

NextMulti ==
    \/ cacheReproduceAll
    \/ reproduceFetched
    \/ reproduceBuilt
    \/ readHistory
    \/ cacheLoopStart
    \/ cacheLoopSkip
    \/ cachePerformComparison
    \/ cacheComparisonFailed
    \/ cachePersist
    \/ cacheExit

SpecMulti == InitMulti /\ [][NextMulti]_vars

(***************************************************************************)
(* Appending one result once and twice (SpecDedupe)                        *)
(***************************************************************************)
Entries ==
    {Entry(rv, ts, d, h) : rv \in ToolVersions, ts \in Timestamps, d \in BOOLEAN, h \in Hashes}

\* the histories the writers can have stored before a further run: every
\* writer leaves the file sorted
StoredHistories ==
    {h \in UNION {[1..n -> Entries] : n \in 0..(MaxLen - 1)} :
        \A i, j \in 1..Len(h) : i < j => existingCompare(h[i], h[j]) <= 0}

InitDedupe ==
    /\ pc = "idle"
    /\ script = "none"
    /\ outcome = "none"
    /\ runs = 0
    /\ disk \in StoredHistories
    /\ existing = JSONparse(disk)
    /\ packed = "none"
    /\ npmVersion = NoVersion
    /\ buildError = "none"
    /\ returned = "result"
    /\ result \in Entries
    /\ runHash = result.hash
    /\ installs = {}
    /\ attempt = 0
    /\ check = NoCheck
    /\ ReproduceIdle
    /\ CompareIdle
    /\ DedupeIdle
    /\ MultiIdle
    /\ DetailIdle

\* existing.push(enhancedResult), then dedupe, sort and stringify
appendOnce ==
    /\ once = <<>>
    /\ once' = deduped(Append(existing, Obj(result, Len(existing) + 1)))
    /\ UNCHANGED <<pipelineVars, compareVars, multiVars, detailVars, twice>>

\* the result pushed twice: the same object again, or an equal copy of it
appendTwice ==
    /\ twice = <<>>
    /\ \E oid \in {Len(existing) + 1, Len(existing) + 2} :
         twice' = deduped(existing \o <<Obj(result, Len(existing) + 1), Obj(result, oid)>>)
    /\ UNCHANGED <<pipelineVars, compareVars, multiVars, detailVars, once>>

NextDedupe ==
    \/ appendOnce
    \/ appendTwice

SpecDedupe == InitDedupe /\ [][NextDedupe]_vars

(***************************************************************************)
(* The comparison engine (SpecCompare)                                     *)
(***************************************************************************)
Paths == {"a.txt", "b.txt", "c.txt"}

\* file contents as bytes: "x\n", "y\n", "x\r\n", and two binary files
\* that differ in their line ending only
Contents == {<<120, 10>>, <<121, 10>>, <<120, 13, 10>>, <<0, 13, 10>>, <<0, 10>>}

\* a directory tree: relative path of each regular file -> content
Trees == UNION {[files -> Contents] : files \in SUBSET Paths}

\* bytes of the sample isBinary inspects
SampleSize == 8192

isBinary(content) ==
    LET sample == SubSeq(content, 1, IF Len(content) < SampleSize THEN Len(content) ELSE SampleSize)
    IN  \E i \in 1..Len(sample) : sample[i] = 0

\* text.replace(/\r\n/g, '\n').replace(/\r/g, '\n')
RECURSIVE replaceCR(_)
replaceCR(text) ==
    IF text = <<>> THEN <<>>
    ELSE IF Len(text) >= 2 /\ text[1] = 13 /\ text[2] = 10
    THEN <<10>> \o replaceCR(SubSeq(text, 3, Len(text)))
    ELSE IF text[1] = 13 THEN <<10>> \o replaceCR(Tail(text))
    ELSE <<text[1]>> \o replaceCR(Tail(text))

normalizeLineEndings(content) ==
    IF isBinary(content) THEN content ELSE replaceCR(content)

\* mutant: the digest of the bytes as read, line endings included
hashFileRaw(content) == <<"sha256", content>>

\* SHA-256 taken as injective: the digest is named by the bytes it hashes
hashFileNormalized(content) == <<"sha256", normalizeLineEndings(content)>>

getFileSize(content) == Len(content)

generateDiff(content1, content2) ==
    IF isBinary(content1) \/ isBinary(content2)
    THEN "[binary files differ]"
    ELSE "unified diff"

getFiles(tree) == DOMAIN tree

\* mutant: the length of [...packageFiles, ...sourceFiles]
concatLength(packageFiles, sourceFiles) ==
    Cardinality(packageFiles) + Cardinality(sourceFiles)

\* new Set([...packageFiles, ...sourceFiles]).size
allFilesSize(packageFiles, sourceFiles) ==
    Cardinality(packageFiles \cup sourceFiles)

\* the body of the loop over allFiles for one file
compareFile(acc, file, packageDir, sourceDir) ==
    LET inPackage == file \in getFiles(packageDir)
        inSource == file \in getFiles(sourceDir)
    IN  IF inPackage /\ inSource
        THEN LET packageHash == hashFileNormalized(packageDir[file])
                 sourceHash == hashFileNormalized(sourceDir[file])
                 size == getFileSize(packageDir[file])
             IN  IF packageHash = sourceHash
                 THEN [acc EXCEPT
                         !.files = @ @@ (file :> [match |-> TRUE,
                                                  packageHash |-> packageHash,
                                                  size |-> size,
                                                  sourceHash |-> sourceHash,
                                                  status |-> "match"]),
                         !.matchingFiles = @ + 1]
                 ELSE [acc EXCEPT
                         !.files = @ @@ (file :> [diff |-> generateDiff(packageDir[file],
                                                                        sourceDir[file]),
                                                  match |-> FALSE,
                                                  packageHash |-> packageHash,
                                                  size |-> size,
                                                  sourceHash |-> sourceHash,
                                                  status |-> "content"]),
                         !.differentFiles = @ + 1]
        ELSE IF inPackage /\ ~inSource
        THEN [acc EXCEPT
                !.files = @ @@ (file :> [match |-> FALSE,
                                         packageHash |-> hashFileNormalized(packageDir[file]),
                                         size |-> getFileSize(packageDir[file]),
                                         status |-> "missing-in-source"]),
                !.missingInSource = @ + 1]
        ELSE [acc EXCEPT
                !.files = @ @@ (file :> [match |-> FALSE, status |-> "missing-in-package"]),
                !.missingInPackage = @ + 1]

RECURSIVE compareLoop(_, _, _, _)
compareLoop(allFiles, acc, packageDir, sourceDir) ==
    IF allFiles = {} THEN acc
    ELSE LET file == CHOOSE f \in allFiles : TRUE IN
         compareLoop(allFiles \ {file}, compareFile(acc, file, packageDir, sourceDir),
                     packageDir, sourceDir)

\* mutant: the division without the guard for an empty union; 0 / 0 is NaN,
\* written <<0, 0>>
scoreUnguarded(matchingFiles, totalFiles) == <<matchingFiles, totalFiles>>

\* matchingFiles / totalFiles as the fraction <<numerator, denominator>>
score(matchingFiles, totalFiles) ==
    IF totalFiles > 0 THEN <<matchingFiles, totalFiles>> ELSE <<1, 1>>

compareDirectories(packageDir, sourceDir) ==
    LET packageFiles == getFiles(packageDir)
        sourceFiles == getFiles(sourceDir)
        allFiles == packageFiles \cup sourceFiles
        acc == compareLoop(allFiles,
                           [files |-> <<>>, matchingFiles |-> 0, differentFiles |-> 0,
                            missingInSource |-> 0, missingInPackage |-> 0],
                           packageDir, sourceDir)
        totalFiles == allFilesSize(packageFiles, sourceFiles)
    IN  [files |-> acc.files,
         summary |-> [differentFiles |-> acc.differentFiles,
                      matchingFiles |-> acc.matchingFiles,
                      missingInPackage |-> acc.missingInPackage,
                      missingInSource |-> acc.missingInSource,
                      score |-> score(acc.matchingFiles, totalFiles),
                      totalFiles |-> totalFiles]]

\* mutant: only the entries with a content difference are kept
filterContentOnly(res) ==
    [files |-> [f \in {g \in DOMAIN res.files : res.files[g].status = "content"}
                  |-> res.files[f]],
     summary |-> res.summary]

filterNonMatching(res) ==
    [files |-> [f \in {g \in DOMAIN res.files : ~res.files[g].match} |-> res.files[f]],
     summary |-> res.summary]

InitCompare ==
    /\ pc = "compare"
    /\ script = "compare"
    /\ outcome = "none"
    /\ runs = 0
    /\ disk = <<>>
    /\ existing = <<>>
    /\ packed = "none"
    /\ npmVersion = NoVersion
    /\ buildError = "none"
    /\ returned = "pending"
    /\ result = NoResult
    /\ runHash = NoHash
    /\ installs = {}
    /\ attempt = 0
    /\ check = NoCheck
    /\ ReproduceIdle
    /\ packageTree \in Trees
    /\ sourceTree \in Trees
    /\ comparison = <<>>
    /\ filtered = <<>>
    /\ DedupeIdle
    /\ MultiIdle
    /\ DetailIdle

\* compareDirectories(publishedDir, rebuiltDir)
compareDirectoriesCall ==
    /\ pc = "compare"
    /\ comparison' = compareDirectories(packageTree, sourceTree)
    /\ pc' = "compared"
    /\ UNCHANGED <<script, outcome, runs, disk, existing, packed, npmVersion, buildError,
                   returned, result, runHash, installs, attempt, check, reproduceVars,
                   packageTree, sourceTree, filtered, dedupeVars, multiVars, detailVars>>

\* filterNonMatching(comparison), as performComparison calls it
filterNonMatchingCall ==
    /\ pc = "compared"
    /\ filtered' = filterNonMatching(comparison)
    /\ pc' = "filtered"
    /\ UNCHANGED <<script, outcome, runs, disk, existing, packed, npmVersion, buildError,
                   returned, result, runHash, installs, attempt, check, reproduceVars,
                   packageTree, sourceTree, comparison, dedupeVars, multiVars, detailVars>>

NextCompare ==
    \/ compareDirectoriesCall
    \/ filterNonMatchingCall

SpecCompare == InitCompare /\ [][NextCompare]_vars

(***************************************************************************)
(* Properties of the pipeline (Spec)                                       *)
(***************************************************************************)
\* C1: every dependency-install command executed in a run of cache-version
\* (by reproduce and by performComparison) carries the target's publish
\* timestamp as its --before bound.
C1_EveryInstallBoundedByPublishTime ==
    \A c \in installs : c.before = PublishTime

\* C2: a package manager without --before support is fatal for the
\* version: no run in which npm is below 5.0.0 ends with reproduce having
\* returned a result that was compared and persisted.
C2_UnsupportedNpmIsFatal ==
    ~(/\ script = "cache-version"
      /\ outcome = "persisted"
      /\ returned = "result"
      /\ ~gte(npmVersion, NPM_BEFORE_VERSION))

(***************************************************************************)
(* Properties of the stored history (SpecCache)                            *)
(***************************************************************************)
\* cache-version has just written the history; `existing` is the loaded
\* array followed by the new result
Persisted == script = "cache-version" /\ outcome = "persisted"

Indices(h, rv) == {i \in 1..Len(h) : h[i].rv = rv}

\* C3: after cache-version persists, the stored array holds exactly one
\* entry for each tool version that occurs in the loaded history or in the
\* new result, and none for any other.
C3_OneEntryPerToolVersion ==
    Persisted =>
        \A rv \in ToolVersions :
            Cardinality(Indices(disk, rv)) = IF Indices(existing, rv) # {} THEN 1 ELSE 0

C3_Witness ==
    /\ Persisted
    /\ Len(existing) = 3
    /\ existing[1].rv = existing[3].rv
    /\ existing[2].rv # existing[1].rv
    /\ Len(disk) = 2

\* C4: among entries of one tool version that all carry comparison data,
\* or that all lack it, the entry kept is one with the most recent
\* timestamp.
C4_LatestKeptAmongAlike ==
    Persisted =>
        \A rv \in ToolVersions :
            LET S == Indices(existing, rv) IN
            ((\A i \in S : existing[i].diff) \/ (\A i \in S : ~existing[i].diff)) =>
                \A j \in Indices(disk, rv) :
                    \A i \in S : Date(disk[j].ts) >= Date(existing[i].ts)

\* C5: among entries of one tool version of which some carry comparison
\* data and some do not, the entry kept carries comparison data.
C5_DiffPreferred ==
    Persisted =>
        \A rv \in ToolVersions :
            LET S == Indices(existing, rv) IN
            ((\E i \in S : existing[i].diff) /\ (\E i \in S : ~existing[i].diff)) =>
                \A j \in Indices(disk, rv) : disk[j].diff

\* the loaded history holds, for one tool version, an entry without
\* comparison data that is later than, and stored after, one with it
C5_Witness ==
    /\ Persisted
    /\ \E i, j \in 1..(Len(existing) - 1) :
         /\ i < j
         /\ existing[i].rv = existing[j].rv
         /\ existing[i].diff
         /\ ~existing[j].diff
         /\ Date(existing[j].ts) > Date(existing[i].ts)
         /\ \A k \in Indices(disk, existing[i].rv) : disk[k].diff

\* C6: when the loaded entry of the running tool version has comparison
\* data but another comparison hash than the running one, the history that
\* a completed run persists is no longer selected by the staleness check.
C6_RerunClearsStaleHash ==
    Persisted =>
        LET n == Len(existing)
            new == existing[n]
            loaded == SubSeq(existing, 1, n - 1)
            i == findLast(loaded, new.rv)
        IN  (i # 0 /\ loaded[i].diff /\ loaded[i].hash # new.hash) =>
                ~missingRepros(disk, new.rv, new.hash)

\* C7: every stored history is ascending by timestamp, and entries with
\* equal timestamps are ascending by tool version in semver order.
C7_HistorySorted ==
    \A i, j \in 1..Len(disk) :
        i < j =>
            \/ Date(disk[i].ts) < Date(disk[j].ts)
            \/ /\ Date(disk[i].ts) = Date(disk[j].ts)
               /\ semverCompare(disk[i].rv, disk[j].rv) <= 0

\* cache-version stored 1.9.0-local before 1.10.0-local at one instant
C7_Witness ==
    /\ Persisted
    /\ \E i \in 1..(Len(disk) - 1) :
         /\ disk[i].ts = disk[i + 1].ts
         /\ disk[i].rv = V(1, 9, 0, "local")
         /\ disk[i + 1].rv = V(1, 10, 0, "local")

\* C9: the staleness check selects the version exactly when its history is
\* empty, or has no entry of the current tool version, or the last such
\* entry lacks comparison data or records another comparison hash.
C9_StaleExactly ==
    script = "versions" =>
        LET S == Indices(disk, check.tool) IN
        check.selected =
            (\/ Len(disk) = 0
             \/ S = {}
             \/ \E i \in S :
                  /\ \A k \in S : k <= i
                  /\ (~disk[i].diff \/ disk[i].hash # check.hash))

\* not selected although an earlier entry of the current tool version
\* lacks comparison data
C9_Witness ==
    /\ script = "versions"
    /\ ~check.selected
    /\ \E i, j \in Indices(disk, check.tool) : i < j /\ ~disk[i].diff

(***************************************************************************)
(* Properties of deduplication as a function (SpecDedupe)                  *)
(***************************************************************************)
\* C8: appending the same result twice and deduplicating stores the same
\* history, with the same single entry for the result's tool version, as
\* appending it once.
C8_DedupeIdempotent ==
    (once # <<>> /\ twice # <<>>) =>
        /\ twice = once
        /\ Cardinality(Indices(twice, result.rv)) = 1

\* both were computed for a history that already held the tool version
C8_Witness ==
    /\ once # <<>>
    /\ twice # <<>>
    /\ Indices(existing, result.rv) # {}
    /\ \E i \in 1..Len(once) : once[i] = result

(***************************************************************************)
(* Properties of the comparison engine (SpecCompare)                       *)
(***************************************************************************)
\* C10: the summary of compareDirectories satisfies totalFiles =
\* matchingFiles + differentFiles + missingInSource + missingInPackage.
C10_TotalIsSumOfCounters ==
    pc = "compared" =>
        LET m == comparison.summary IN
        m.totalFiles = m.matchingFiles + m.differentFiles
                         + m.missingInSource + m.missingInPackage

\* a comparison in which every counter is positive but matchingFiles
C10_Witness ==
    /\ pc = "compared"
    /\ comparison.summary.differentFiles = 1
    /\ comparison.summary.missingInSource = 1
    /\ comparison.summary.missingInPackage = 1
    /\ comparison.summary.totalFiles = 3

\* compareDirectories has returned
Compared == pc \in {"compared", "filtered"}

\* the paths of both trees
Union == DOMAIN packageTree \cup DOMAIN sourceTree

\* a path is in both trees with equal content once line endings of text
\* files are normalized
SameNormalized(f) ==
    /\ f \in DOMAIN packageTree
    /\ f \in DOMAIN sourceTree
    /\ normalizeLineEndings(packageTree[f]) = normalizeLineEndings(sourceTree[f])

\* C11: the score of compareDirectories lies in [0, 1]; it is 1 exactly
\* when every path of the union of both trees matches; on two empty trees
\* it is exactly 1.
C11_ScoreInUnitInterval ==
    Compared =>
        LET sc == comparison.summary.score IN
        /\ sc[2] > 0
        /\ 0 <= sc[1]
        /\ sc[1] <= sc[2]
        /\ (sc[1] = sc[2]) <=> (\A f \in Union : SameNormalized(f))
        /\ (Union = {} => sc = <<1, 1>>)

\* a score of 1 over two files of which one differs in its line endings
C11_Witness ==
    /\ Compared
    /\ Cardinality(Union) = 2
    /\ comparison.summary.score = <<2, 2>>
    /\ \E f \in Union : packageTree[f] # sourceTree[f]

\* the status the layout of the two trees gives a path
StatusOf(f) ==
    IF f \in DOMAIN packageTree /\ f \in DOMAIN sourceTree
    THEN IF SameNormalized(f) THEN "match" ELSE "content"
    ELSE IF f \in DOMAIN packageTree THEN "missing-in-source"
    ELSE "missing-in-package"

CountOf(status) == Cardinality({f \in Union : StatusOf(f) = status})

\* published {a.txt: x, b.txt} against rebuilt {a.txt: y, c.txt}
Scenario ==
    /\ DOMAIN packageTree = {"a.txt", "b.txt"}
    /\ DOMAIN sourceTree = {"a.txt", "c.txt"}
    /\ packageTree["a.txt"] = <<120, 10>>
    /\ sourceTree["a.txt"] = <<121, 10>>

\* C12: compareDirectories gives every path of the union exactly one
\* status (match or content when in both trees, by the normalized hashes;
\* missing-in-source when only published; missing-in-package when only
\* rebuilt), every counter is the number of paths with that status, and
\* the scenario yields total 3, matching 0, different 1, missingInSource 1,
\* missingInPackage 1, score 0.
C12_OneStatusPerPath ==
    Compared =>
        LET m == comparison.summary IN
        /\ DOMAIN comparison.files = Union
        /\ \A f \in Union :
             /\ comparison.files[f].status = StatusOf(f)
             /\ comparison.files[f].match = (StatusOf(f) = "match")
        /\ m.totalFiles = Cardinality(Union)
        /\ m.matchingFiles = CountOf("match")
        /\ m.differentFiles = CountOf("content")
        /\ m.missingInSource = CountOf("missing-in-source")
        /\ m.missingInPackage = CountOf("missing-in-package")
        /\ Scenario => m = [differentFiles |-> 1, matchingFiles |-> 0,
                            missingInPackage |-> 1, missingInSource |-> 1,
                            score |-> <<0, 3>>, totalFiles |-> 3]

\* all four statuses are given in one comparison, the match being between
\* a CRLF file and its LF counterpart
C12_Witness ==
    /\ Compared
    /\ \E f \in Union : StatusOf(f) = "match" /\ packageTree[f] # sourceTree[f]
    /\ \E f \in Union : comparison.files[f].status = "content"
    /\ \E f \in Union : comparison.files[f].status = "missing-in-source"

\* C13: filterNonMatching returns the input summary unchanged and exactly
\* the input entries whose match flag is not true, each unchanged;
\* missing-in-source and missing-in-package entries are kept, and when all
\* entries match the files object is empty.
C13_FilterKeepsNonMatching ==
    pc = "filtered" =>
        LET kept == {f \in DOMAIN comparison.files : comparison.files[f].match # TRUE} IN
        /\ filtered.summary = comparison.summary
        /\ DOMAIN filtered.files = kept
        /\ \A f \in kept : filtered.files[f] = comparison.files[f]
        /\ \A f \in DOMAIN comparison.files :
             comparison.files[f].status \in {"missing-in-source", "missing-in-package"}
                 => f \in DOMAIN filtered.files
        /\ (\A f \in DOMAIN comparison.files : comparison.files[f].match)
               => DOMAIN filtered.files = {}

\* a matching entry was removed while a missing-in-source and a
\* missing-in-package entry were kept
C13_Witness ==
    /\ pc = "filtered"
    /\ \E f \in DOMAIN comparison.files : comparison.files[f].match
    /\ \E f \in DOMAIN filtered.files : filtered.files[f].status = "missing-in-source"
    /\ \E f \in DOMAIN filtered.files : filtered.files[f].status = "missing-in-package"

(***************************************************************************)
(* Properties of source resolution and of the run's outcome (Spec)         *)
(***************************************************************************)
\* reproduce has settled on a ref in the current run
Resolved == script = "cache-version" /\ source.location # <<>>

\* C14: the ref is the gitHead of the manifest if present; otherwise the
\* remote tag equal to the version; otherwise the remote tag v<version>;
\* otherwise HEAD, with a warning.  A lower choice is taken only when
\* every higher one is unavailable.
C14_RefPriority ==
    Resolved =>
        LET hasTag(t) == remote.reachable /\ t \in remote.tags IN
        /\ source.ref =
              IF mani.gitHead # <<>> THEN mani.gitHead
              ELSE IF hasTag(<<"1.0.0">>) THEN <<"1.0.0">>
              ELSE IF hasTag(<<"v", "1.0.0">>) THEN <<"v", "1.0.0">>
              ELSE <<"HEAD">>
        /\ (HeadWarning \in log) <=>
              (mani.gitHead = <<>> /\ ~hasTag(<<"1.0.0">>) /\ ~hasTag(<<"v", "1.0.0">>))

\* both tags exist, with a tag of another package, and the exact one is taken
C14_Witness ==
    /\ Resolved
    /\ mani.gitHead = <<>>
    /\ remote.reachable
    /\ remote.tags = TagNames
    /\ source.ref = <<"1.0.0">>

\* C15: every source spec reproduce records has a non-empty ref, also
\* when the tag lookup fails or returns nothing.
C15_RefNeverEmpty ==
    /\ Resolved => source.ref # <<>>
    /\ (script = "cache-version" /\ returned = "result") => source.ref # <<>>

\* a result was returned although the lookup got no answer
C15_Witness ==
    /\ Resolved
    /\ returned = "result"
    /\ mani.gitHead = <<>>
    /\ ~remote.reachable
    /\ source.ref = <<"HEAD">>

\* the manifest declares no repository URL, or one on another host
NotApplicable(m) == m.url = NoUrl \/ m.url.host # "github.com"

\* C16: when the manifest has no repository URL, or its host is not
\* github.com, reproduce returns false without any clone, install or pack,
\* and cache-version exits 0 leaving the stored history as it was loaded.
C16_NotApplicableIsSkipped ==
    (script = "cache-version" /\ pc # "reproduce" /\ NotApplicable(mani)) =>
        /\ returned = "false"
        /\ commands = {}
        /\ installs = {}
        /\ disk = JSONstringify(existing)
        /\ pc = "idle" => outcome = "skipped"

\* a run on a gitlab URL ended with a non-empty history
C16_Witness ==
    /\ script = "cache-version"
    /\ pc = "idle"
    /\ mani.url = OtherHostUrl
    /\ outcome = "skipped"
    /\ disk # <<>>

\* C17: when the publish time of the version cannot be determined, the
\* run ends as a failure of the version and not as the skipped outcome
\* with exit code 0.
C17_MissingPublishTimeIsFatal ==
    (/\ script = "cache-version"
     /\ pc = "idle"
     /\ ~NotApplicable(mani)
     /\ publishTime = "null") => outcome = "failed"

\* the subdirectory a manifest declares or its tree URL implies
Subdirectories(m) ==
    {m.directory, IF Len(m.url.path) >= 5 THEN SubSeq(m.url.path, 5, Len(m.url.path)) ELSE <<>>}
        \ {<<>>}

\* C18: for a package in a monorepo subdirectory, every install and pack
\* command, those of the comparison rebuild included, runs in that
\* subdirectory and never at the root of the repository.
C18_MonorepoRootedAtSubdirectory ==
    (script = "cache-version" /\ Subdirectories(mani) # {}) =>
        \A c \in commands :
            c.cmd \in {"install", "pack"} => c.cwd \in Subdirectories(mani)

C20_OneVersionAtATime ==
    \A v \in Versions \ {1} :
        stage[v] # "pending" => stage[v - 1] \in {"false", "skipped", "failed", "persisted"}

(***************************************************************************)
(* Properties of a failed comparison (Spec)                                *)
(***************************************************************************)
\* C21: when performComparison fails at any step, the script ends there
\* as a failure: no enhanced result is pushed and the stored history is
\* exactly what was loaded.
C21_FailedComparisonLeavesHistory ==
    (script = "cache-version" /\ ComparisonFailed \in log) =>
        /\ pc = "idle"
        /\ outcome = "failed"
        /\ disk = JSONstringify(existing)

\* the pack of the comparison rebuild failed over a non-empty history
C21_Witness ==
    /\ script = "cache-version"
    /\ ComparisonFailed \in log
    /\ outcome = "failed"
    /\ \E c \in commands : c.cmd = "pack" /\ c.by = "performComparison"
    /\ disk # <<>>

(***************************************************************************)
(* reproduce, from node provisioning to the result (SpecBuild)             *)
(***************************************************************************)
MIN_NODE_VERSION == V(0, 8, 0, "")

\* node of the process that runs the script
CurrentNodeVersion == V(20, 11, 0, "")

\* mani._nodeVersion (NoVersion when the manifest has none)
PublishedNodeVersions == {NoVersion, V(0, 6, 0, ""), V(0, 12, 18, ""), V(18, 0, 0, "")}

\* integrity digests
Digests == {"sha512-a", "sha512-b"}

lt(a, b) == semverCompare(a, b) < 0

\* the argument of a tryInstallNode call: an exact version or a major line
Request(kind, version) == [kind |-> kind, version |-> version]

\* one tryInstallNode call: its argument and what it returned (NoVersion
\* for null)
Try(request, installed) == [request |-> request, installed |-> installed]

\* mutant: the next major line is tried before the same major line
requestAtNextMajorFirst(n, version) ==
    IF n = 1 THEN Request("exact", version)
    ELSE IF n = 2 THEN Request("major", V(version[1] + 1, 0, 0, ""))
    ELSE Request("major", V(version[1], 0, 0, ""))

\* ensureNodeVersion: the exact version, then String(major), then
\* String(major + 1)
requestAt(n, version) ==
    IF n = 1 THEN Request("exact", version)
    ELSE IF n = 2 THEN Request("major", V(version[1], 0, 0, ""))
    ELSE Request("major", V(version[1] + 1, 0, 0, ""))

\* what `nvm exec <request> node --version` reports once the install worked
extractNodeVersion(request) ==
    IF request.kind = "exact" THEN request.version ELSE V(request.version[1], 9, 0, "")

\* `options.nodeVersion && isNvmAvailable()`
provisioned(nodeVersion, nvmAvailable) == nodeVersion # NoVersion /\ nvmAvailable

\* mutant: commands run under the node the package was published with
toolchainRequested(nodeVersion, nvmAvailable) ==
    IF originalNodeVersion # NoVersion THEN originalNodeVersion ELSE CurrentNodeVersion

\* the node a command is first run under: execWithNodeVersion or exec
toolchain(nodeVersion, nvmAvailable) ==
    IF provisioned(nodeVersion, nvmAvailable) THEN nodeVersion ELSE CurrentNodeVersion

Ran(cmd, node) == [cmd |-> cmd, node |-> node]

\* the executions of one command: under the provisioned node and, when that
\* throws, once more under the current one
executions(cmd, firstOk) ==
    {Ran(cmd, toolchain(installedNodeVersion, nvm))}
        \cup (IF provisioned(installedNodeVersion, nvm) /\ ~firstOk
              THEN {Ran(cmd, CurrentNodeVersion)}
              ELSE {})

succeeded(firstOk, secondOk) ==
    IF provisioned(installedNodeVersion, nvm) THEN firstOk \/ secondOk ELSE secondOk

\* `npm:${npmVersion}`
strategy(version) == <<"npm:", version>>

\* mutant: the digests are compared even when none was captured
reproducedCompared(integrity, published) == published = integrity

\* packed?.integrity ? mani.dist.integrity === packed.integrity : false
reproducedFlag(integrity, published) ==
    IF integrity # "undefined" THEN published = integrity ELSE FALSE

\* packed?.integrity ?? null
sourceIntegrity(integrity) == IF integrity = "undefined" THEN "null" ELSE integrity

InitBuild ==
    /\ pc = "provision"
    /\ script = "none"
    /\ outcome = "none"
    /\ runs = 0
    /\ disk = <<>>
    /\ existing = <<>>
    /\ packed = "undefined"
    /\ npmVersion = NoVersion
    /\ buildError = "none"
    /\ returned = "pending"
    /\ result = NoResult
    /\ runHash = NoHash
    /\ installs = {}
    /\ attempt = 0
    /\ check = NoCheck
    /\ ReproduceIdle
    /\ CompareIdle
    /\ DedupeIdle
    /\ MultiIdle
    /\ FetchIdle
    /\ LookupIdle
    /\ UrlIdle
    /\ StudyIdle
    /\ nvm \in BOOLEAN
    /\ originalNodeVersion \in PublishedNodeVersions
    /\ installedNodeVersion = NoVersion
    /\ distIntegrity \in {"undefined", "sha512-a"}
    /\ tried = <<>>
    /\ ran = {}
    /\ built = NoBuilt

buildFrame == UNCHANGED <<script, outcome, runs, disk, existing, result, runHash, installs,
                          attempt, check, mani, remote, source, log, commands, compareVars,
                          dedupeVars, multiVars, fetchVars, lookupVars, urlVars, studyVars, nvm,
                          distIntegrity>>

\* reproduce: the clamp to MIN_NODE_VERSION and the decision to provision
buildProvision ==
    /\ pc = "provision"
    /\ LET clamped == IF originalNodeVersion # NoVersion
                         /\ lt(originalNodeVersion, MIN_NODE_VERSION)
                      THEN MIN_NODE_VERSION
                      ELSE originalNodeVersion
       IN /\ originalNodeVersion' = clamped
          /\ pc' = IF clamped # NoVersion /\ nvm THEN "ensureNodeVersion" ELSE "getNpmVersion"
    /\ buildFrame
    /\ UNCHANGED <<packed, npmVersion, buildError, returned, publishTime,
                   installedNodeVersion, tried, ran, built>>

\* ensureNodeVersion: one call of tryInstallNode, which catches every error
buildTryInstallNode ==
    /\ pc = "ensureNodeVersion"
    /\ LET request == requestAt(Len(tried) + 1, originalNodeVersion)
       IN \E ok \in BOOLEAN :
            IF ok
            THEN /\ tried' = Append(tried, Try(request, extractNodeVersion(request)))
                 /\ installedNodeVersion' = extractNodeVersion(request)
                 /\ pc' = "getNpmVersion"
            ELSE /\ tried' = Append(tried, Try(request, NoVersion))
                 /\ UNCHANGED installedNodeVersion
                 /\ pc' = IF Len(tried) = 2 THEN "getNpmVersion" ELSE "ensureNodeVersion"
    /\ buildFrame
    /\ UNCHANGED <<packed, npmVersion, buildError, returned, publishTime,
                   originalNodeVersion, ran, built>>

\* getNpmVersion(installedNodeVersion)
buildGetNpmVersion ==
    /\ pc = "getNpmVersion"
    /\ \E firstOk \in BOOLEAN, version \in NpmVersions :
         /\ ran' = ran \cup executions("npm --version", firstOk)
         /\ npmVersion' = version
    /\ pc' = "packument"
    /\ buildFrame
    /\ UNCHANGED <<packed, buildError, returned, publishTime, originalNodeVersion,
                   installedNodeVersion, tried, built>>

\* reproduce: the publish time, without which the outer catch returns false
buildPublishTime ==
    /\ pc = "packument"
    /\ \E time \in {"null", PublishTime} :
         /\ publishTime' = time
         /\ IF time = "null"
            THEN returned' = "false" /\ pc' = "built"
            ELSE pc' = "fetchSource" /\ UNCHANGED returned
    /\ buildFrame
    /\ UNCHANGED <<packed, npmVersion, buildError, originalNodeVersion,
                   installedNodeVersion, tried, ran, built>>

\* reproduce: clone, fetch, checkout, rewriteWorkspaceDeps inside the inner try
buildClone ==
    /\ pc = "fetchSource"
    /\ \E ok \in BOOLEAN :
         IF ok
         THEN pc' = "install" /\ UNCHANGED buildError
         ELSE pc' = "buildResult" /\ buildError' = "git"
    /\ buildFrame
    /\ UNCHANGED <<packed, npmVersion, returned, publishTime, originalNodeVersion,
                   installedNodeVersion, tried, ran, built>>

\* npmInstall(packageDir, { before, nodeVersion: installedNodeVersion, npmVersion })
buildNpmInstall ==
    /\ pc = "install"
    /\ IF ~npmSupportsBefore(npmVersion)
       THEN /\ buildError' = "npm does not support --before"
            /\ pc' = "buildResult"
            /\ UNCHANGED ran
       ELSE \E firstOk \in BOOLEAN, secondOk \in BOOLEAN :
              /\ ran' = ran \cup executions("install", firstOk)
              /\ IF succeeded(firstOk, secondOk)
                 THEN pc' = "packSource" /\ UNCHANGED buildError
                 ELSE pc' = "buildResult" /\ buildError' = "install"
    /\ buildFrame
    /\ UNCHANGED <<packed, npmVersion, returned, publishTime, originalNodeVersion,
                   installedNodeVersion, tried, built>>

\* packed = npmPack(packageDir, { nodeVersion: installedNodeVersion, before })
buildNpmPack ==
    /\ pc = "packSource"
    /\ \E firstOk \in BOOLEAN, secondOk \in BOOLEAN :
         /\ ran' = ran \cup executions("pack", firstOk)
         /\ IF succeeded(firstOk, secondOk)
            THEN /\ \E integrity \in {"undefined"} \cup Digests : packed' = integrity
                 /\ UNCHANGED buildError
            ELSE /\ buildError' = "pack"
                 /\ UNCHANGED packed
    /\ pc' = "buildResult"
    /\ buildFrame
    /\ UNCHANGED <<npmVersion, returned, publishTime, originalNodeVersion,
                   installedNodeVersion, tried, built>>

\* reproduce: the result object
buildResult ==
    /\ pc = "buildResult"
    /\ built' = Built(strategy(npmVersion), reproducedFlag(packed, distIntegrity),
                      sourceIntegrity(packed))
    /\ returned' = "result"
    /\ pc' = "built"
    /\ buildFrame
    /\ UNCHANGED <<packed, npmVersion, buildError, publishTime, originalNodeVersion,
                   installedNodeVersion, tried, ran>>

NextBuild ==
    \/ buildProvision
    \/ buildTryInstallNode
    \/ buildGetNpmVersion
    \/ buildPublishTime
    \/ buildClone
    \/ buildNpmInstall
    \/ buildNpmPack
    \/ buildResult

SpecBuild == InitBuild /\ [][NextBuild]_vars

\* a node version was wanted and none was provisioned: the version manager
\* is absent, or every tryInstallNode call failed
Unprovisioned ==
    /\ pc \notin {"provision", "ensureNodeVersion"}
    /\ originalNodeVersion # NoVersion
    /\ ~nvm \/ (Len(tried) = 3 /\ \A i \in 1..3 : tried[i].installed = NoVersion)

\* C22: when the version manager is absent or every provisioning attempt
\* fails, ensureNodeVersion yields no version, the reproduction is not
\* aborted by it, and install and pack run under the current toolchain.
C22_ProvisioningFailureDegrades ==
    Unprovisioned =>
         /\ installedNodeVersion = NoVersion
         /\ \A r \in ran : r.node = CurrentNodeVersion
         /\ returned = "false" => publishTime = "null"
         /\ (pc \in {"packSource", "buildResult", "built"} /\ returned # "false"
               /\ buildError \notin {"git", "npm does not support --before"})
              => Ran("install", CurrentNodeVersion) \in ran
         /\ (pc \in {"buildResult", "built"} /\ returned # "false" /\ buildError \in {"none", "pack"})
              => Ran("pack", CurrentNodeVersion) \in ran
         /\ (pc = "built" /\ publishTime # "null") => returned = "result"

\* all three provisioning attempts failed and the package was packed under
\* the current node
C22_Witness ==
    /\ Unprovisioned
    /\ nvm
    /\ Len(tried) = 3
    /\ pc = "built"
    /\ returned = "result"
    /\ Ran("pack", CurrentNodeVersion) \in ran

\* the strategy strings of results built under the provisioned node
ProvisionedStrategies == {strategy(version) : version \in NpmVersions}

\* C23: a result built after every provisioning attempt failed carries a
\* strategy string that no result built under the requested node carries.
C23_FallbackRecordedInStrategy ==
    (Unprovisioned /\ nvm /\ pc = "built" /\ returned = "result")
        => built.strategy \notin ProvisionedStrategies

\* C28: reproduced is true exactly when a digest was captured and equals the
\* published one; when clone, install or pack failed, reproduced is false
\* and the source integrity is null.
C28_ReproducedIffDigestsEqual ==
    (pc = "built" /\ returned = "result") =>
        /\ built.reproduced <=> (packed \in Digests /\ packed = distIntegrity)
        /\ buildError # "none" => (~built.reproduced /\ built.integrity = "null")
        /\ packed \in Digests => built.integrity = packed

\* a rebuild whose digest equals the published one
C28_Witness ==
    /\ pc = "built"
    /\ returned = "result"
    /\ built.reproduced
    /\ \E r \in ran : r.cmd = "pack"

(***************************************************************************)
(* performComparison of cache-version, step by step (SpecComparison)       *)
(***************************************************************************)
\* cloneUrl of parseSourceLocation(result.source.location)
PrimaryUrl == "https://github.com/org/repo.git"

\* the repoUrls findWorkingRepoUrl collects from the packument, in order
CandidateUrls == <<"https://github.com/org/repo-moved.git", "https://github.com/fork/repo.git">>

\* isRepoReachable of each collected URL
CandidateLists == UNION {[1..n -> BOOLEAN] : n \in 0..Len(CandidateUrls)}

\* the histories a version can have stored before the run
LoadedHistories == {<<>>} \cup {<<e>> : e \in Entries}

NoReachableRepository == "No reachable repository found"

FallbackFailed == "Fallback repo also failed"

NoMatchingVersion == "No matching version found"

\* mutant: the first collected URL is taken without probing it
firstCandidate(reachable) ==
    IF reachable = <<>> THEN "null" ELSE CandidateUrls[1]

\* findWorkingRepoUrl: the first reachable URL of the list, or null
findWorkingRepoUrl(reachable) ==
    LET found == {i \in 1..Len(reachable) : reachable[i]}
    IN IF found = {}
       THEN "null"
       ELSE CandidateUrls[CHOOSE i \in found : \A j \in found : i <= j]

\* whether a clone of the URL can succeed
clonable(url) ==
    \/ url = PrimaryUrl
    \/ \E i \in 1..Len(candidates) : CandidateUrls[i] = url /\ candidates[i]

\* mutant: the directory is removed only when nothing was thrown
removedOnSuccess(err) == IF err = NoError THEN "absent" ELSE tempDir

\* finally { await rm(tempDir, { force: true, recursive: true }) }
removed(err) == "absent"

\* mutant: a missing dependency version is retried without a bound
alwaysRetry(n) == TRUE

\* `attempt < maxRetries`
mayRetry(n) == n < maxRetries

InitComparison ==
    /\ pc = "mkdir"
    /\ script = "cache-version"
    /\ outcome = "none"
    /\ runs = 1
    /\ disk \in LoadedHistories
    /\ existing = JSONparse(disk)
    /\ packed = "none"
    /\ npmVersion = NoVersion
    /\ buildError = "none"
    /\ returned = "result"
    /\ result = Entry(V(1, 10, 0, "local"), <<2024, 2, 1>>, FALSE, NoHash)
    /\ runHash = "blob-b"
    /\ installs = {}
    /\ attempt = 0
    /\ check = NoCheck
    /\ ReproduceIdle
    /\ CompareIdle
    /\ DedupeIdle
    /\ MultiIdle
    /\ BuildIdle
    /\ LookupIdle
    /\ UrlIdle
    /\ StudyIdle
    /\ tempDir = "absent"
    /\ candidates \in CandidateLists
    /\ clonedFrom = "none"
    /\ thrown = NoError
    /\ caught = NoError
    /\ executed = <<>>
    /\ persisted = "none"

comparisonFrame == UNCHANGED <<script, runs, packed, npmVersion, buildError, returned,
                               result, runHash, installs, check, reproduceVars,
                               compareVars, dedupeVars, multiVars, buildVars, lookupVars,
                               urlVars, studyVars, candidates>>

\* an error leaves the try block: the finally clause is next
raise(err) ==
    /\ thrown' = err
    /\ pc' = "finally"

\* mkdir(tempDir, { recursive: true })
comparisonMkdir ==
    /\ pc = "mkdir"
    /\ \E ok \in BOOLEAN :
         IF ok
         THEN tempDir' = "present" /\ pc' = "download" /\ UNCHANGED thrown
         ELSE raise(Error("mkdir", 0)) /\ UNCHANGED tempDir
    /\ comparisonFrame
    /\ UNCHANGED <<outcome, disk, existing, attempt, clonedFrom, caught, executed, persisted>>

\* downloadFile(result.package.location, publishedTarball)
comparisonDownload ==
    /\ pc = "download"
    /\ \E ok \in BOOLEAN :
         IF ok
         THEN pc' = "cloneWithFallback" /\ UNCHANGED thrown
         ELSE raise(Error("download", 0))
    /\ comparisonFrame
    /\ UNCHANGED <<outcome, disk, existing, attempt, tempDir, clonedFrom, caught, executed,
                   persisted>>

\* cloneWithFallback: the clone of the primary URL
clonePrimary ==
    /\ pc = "cloneWithFallback"
    /\ \E ok \in BOOLEAN :
         IF ok
         THEN clonedFrom' = PrimaryUrl /\ pc' = "checkout"
         ELSE pc' = "findWorkingRepoUrl" /\ UNCHANGED clonedFrom
    /\ comparisonFrame
    /\ UNCHANGED <<outcome, disk, existing, attempt, tempDir, thrown, caught, executed,
                   persisted>>

\* cloneWithFallback: the fallback search and the clone of what it found
cloneFallback ==
    /\ pc = "findWorkingRepoUrl"
    /\ \E packumentOk \in BOOLEAN, ok \in BOOLEAN :
         LET fallbackUrl == IF packumentOk THEN findWorkingRepoUrl(candidates) ELSE "null"
         IN IF fallbackUrl = "null"
            THEN raise(Error(NoReachableRepository, 0)) /\ UNCHANGED clonedFrom
            ELSE IF ok /\ clonable(fallbackUrl)
            THEN clonedFrom' = fallbackUrl /\ pc' = "checkout" /\ UNCHANGED thrown
            ELSE raise(Error(FallbackFailed, 0)) /\ UNCHANGED clonedFrom
    /\ comparisonFrame
    /\ UNCHANGED <<outcome, disk, existing, attempt, tempDir, caught, executed, persisted>>

\* git fetch, git checkout and rewriteWorkspaceDeps
comparisonCheckout ==
    /\ pc = "checkout"
    /\ \E ok \in BOOLEAN :
         IF ok
         THEN pc' = "installWithRetry" /\ UNCHANGED thrown
         ELSE raise(Error("checkout", 0))
    /\ attempt' = 0
    /\ comparisonFrame
    /\ UNCHANGED <<outcome, disk, existing, tempDir, clonedFrom, caught, executed, persisted>>

\* installWithRetry: one pass of the loop `for (attempt = 0; attempt <= maxRetries; attempt++)`
comparisonInstall ==
    /\ pc = "installWithRetry"
    /\ IF attempt > maxRetries
       THEN \* the loop ends and the function returns
            /\ pc' = "pack"
            /\ UNCHANGED <<attempt, thrown, caught, executed>>
       ELSE \E out \in {"ok", NoMatchingVersion, "other"} :
              /\ executed' = Append(executed, out)
              /\ IF out = "ok"
                 THEN pc' = "pack" /\ UNCHANGED <<attempt, thrown, caught>>
                 ELSE /\ caught' = Error(out, attempt)
                      /\ IF out = NoMatchingVersion /\ mayRetry(attempt)
                         THEN /\ attempt' = attempt + 1
                              /\ UNCHANGED <<pc, thrown>>
                         ELSE /\ raise(caught')
                              /\ UNCHANGED attempt
    /\ comparisonFrame
    /\ UNCHANGED <<outcome, disk, existing, tempDir, clonedFrom, persisted>>

\* getProdDeps, saveDepsForQueue and npm pack
comparisonPack ==
    /\ pc = "pack"
    /\ \E ok \in BOOLEAN :
         IF ok
         THEN pc' = "compare" /\ UNCHANGED thrown
         ELSE raise(Error("pack", 0))
    /\ comparisonFrame
    /\ UNCHANGED <<outcome, disk, existing, attempt, tempDir, clonedFrom, caught, executed,
                   persisted>>

\* extractTarball twice, compareDirectories and the return
comparisonCompare ==
    /\ pc = "compare"
    /\ \E out \in {"ok", "extract", "compare"} :
         IF out = "ok"
         THEN pc' = "finally" /\ UNCHANGED thrown
         ELSE raise(Error(out, 0))
    /\ comparisonFrame
    /\ UNCHANGED <<outcome, disk, existing, attempt, tempDir, clonedFrom, caught, executed,
                   persisted>>

\* the finally clause of performComparison
comparisonFinally ==
    /\ pc = "finally"
    /\ tempDir' = removed(thrown)
    /\ pc' = IF thrown = NoError THEN "enhance" ELSE "catch"
    /\ comparisonFrame
    /\ UNCHANGED <<outcome, disk, existing, attempt, clonedFrom, thrown, caught, executed,
                   persisted>>

\* cache-version: the catch around performComparison
comparisonCaught ==
    /\ pc = "catch"
    /\ exit(1)
    /\ comparisonFrame
    /\ UNCHANGED <<disk, existing, attempt, tempDir, clonedFrom, thrown, caught, executed,
                   persisted>>

\* cache-version: enhancedResult = { ...reproduceResult, comparisonHash, diff,
\* prodDependencies }, then push, dedupe, sort, writeFile
comparisonPersist ==
    /\ pc = "enhance"
    /\ existing' = Append(existing, enhancedResult(result, runHash, Len(existing) + 1))
    /\ disk' = deduped(existing')
    /\ persisted' = PrimaryUrl
    /\ outcome' = "persisted"
    /\ pc' = "idle"
    /\ comparisonFrame
    /\ UNCHANGED <<attempt, tempDir, clonedFrom, thrown, caught, executed>>

NextComparison ==
    \/ comparisonMkdir
    \/ comparisonDownload
    \/ clonePrimary
    \/ cloneFallback
    \/ comparisonCheckout
    \/ comparisonInstall
    \/ comparisonPack
    \/ comparisonCompare
    \/ comparisonFinally
    \/ comparisonCaught
    \/ comparisonPersist

SpecComparison == InitComparison /\ [][NextComparison]_vars

\* the script is one sequential process that runs to its end
SpecComparisonFair == SpecComparison /\ WF_vars(NextComparison)

\* cloneWithFallback was called and has ended
CloneEnded ==
    /\ pc \notin {"mkdir", "download", "cloneWithFallback", "findWorkingRepoUrl"}
    /\ thrown.message \notin {"mkdir", "download"}

\* C24: when the primary clone fails and no candidate is reachable,
\* cloneWithFallback throws the no-reachable-repository error; it returns
\* only after a clone succeeded; and the failure ends the run with the
\* stored history as it was loaded.
C24_NoReachableRepositoryIsFatal ==
    /\ (CloneEnded /\ clonedFrom # PrimaryUrl /\ \A i \in 1..Len(candidates) : ~candidates[i])
         => thrown.message = NoReachableRepository
    /\ (CloneEnded /\ thrown.message \notin {NoReachableRepository, FallbackFailed})
         => (clonedFrom # "none" /\ clonable(clonedFrom))
    /\ (thrown.message = NoReachableRepository /\ pc = "idle")
         => /\ outcome = "failed"
            /\ disk = JSONstringify(existing)
            /\ persisted = "none"

\* the run ended on the no-reachable-repository error over a stored history
C24_Witness ==
    /\ thrown.message = NoReachableRepository
    /\ pc = "idle"
    /\ candidates # <<>>
    /\ disk # <<>>

\* C25: when the source was cloned from an alternate URL, the persisted
\* result records that URL.
C25_PersistedRecordsAlternateUrl ==
    (outcome = "persisted" /\ clonedFrom \notin {"none", PrimaryUrl})
        => persisted = clonedFrom

\* C26: installWithRetry executes at most maxRetries + 1 installs, returns
\* at the first successful one, throws the install's own error once the
\* bound is reached, and always ends.
C26_InstallWithRetryBounded ==
    /\ [](Len(executed) <= maxRetries + 1)
    /\ [](\A i \in 1..Len(executed) : executed[i] = "ok" =>
             (i = Len(executed) /\ pc # "installWithRetry"
                /\ thrown.message \notin {NoMatchingVersion, "other"}))
    /\ []((pc \in {"pack", "compare", "enhance"} \/ outcome = "persisted")
             => (executed # <<>> /\ executed[Len(executed)] = "ok"))
    /\ []((thrown.message \in {NoMatchingVersion, "other"})
             => /\ thrown = caught
                /\ thrown.at = Len(executed) - 1
                /\ thrown.message = executed[Len(executed)]
                /\ thrown.message = NoMatchingVersion => Len(executed) = maxRetries + 1)
    /\ (pc = "installWithRetry") ~> (pc # "installWithRetry")

\* the sixth install failed on a missing dependency version and its error
\* was thrown
C26_Witness ==
    /\ Len(executed) = maxRetries + 1
    /\ thrown = Error(NoMatchingVersion, maxRetries)
    /\ pc = "idle"

OtherVersion == V(1, 0, 1, "")

\* what pacote.packument can do: reject with a code, or resolve with a
\* document that has no `versions`, or with zero, one or two versions
Lookups ==
    {Lookup("rejected", code, FALSE, <<>>) : code \in {"E404", "ETIMEDOUT"}}
        \cup {Lookup("resolved", "none", FALSE, <<>>)}
        \cup {Lookup("resolved", "none", TRUE, keys) :
                 keys \in {<<>>, <<PackageVersion>>, <<PackageVersion, OtherVersion>>}}

\* status of the direct registry request (-1: fetch itself rejected)
Statuses == {404, 200, 503, -1}

\* mutant: the E404 of pacote is trusted without the registry's status
unverified(status) == TRUE

\* verifyResponse.status === 404
confirmed(status) == status = 404

\* the three outputs of a removed package
removedOutputs(removedReason) ==
    Outputs({"missingRepros", "removed", "removedReason"}, <<>>, "true", removedReason)

\* versions.filter(...): the stored history belongs to PackageVersion, the
\* other versions have no file
missingReprosList(keys, history, reproduceVersion, COMPARISON_HASH) ==
    SelectSeq(keys, LAMBDA v : IF v = PackageVersion
                               THEN missingRepros(history, reproduceVersion, COMPARISON_HASH)
                               ELSE missingRepros(<<>>, reproduceVersion, COMPARISON_HASH))

InitVersions ==
    /\ pc = "packument"
    /\ script = "versions"
    /\ outcome = "none"
    /\ runs = 1
    /\ disk \in LoadedHistories
    /\ existing = <<>>
    /\ packed = "none"
    /\ npmVersion = NoVersion
    /\ buildError = "none"
    /\ returned = "pending"
    /\ result = NoResult
    /\ runHash = NoHash
    /\ installs = {}
    /\ attempt = 0
    /\ check = NoCheck
    /\ ReproduceIdle
    /\ CompareIdle
    /\ DedupeIdle
    /\ MultiIdle
    /\ DetailIdle

versionsFrame == UNCHANGED <<script, runs, disk, packed, npmVersion, buildError, returned,
                            result, installs, attempt, reproduceVars, compareVars,
                            dedupeVars, multiVars, buildVars, fetchVars, urlVars, studyVars>>

\* packument(`${pkg}@*`) and the checks on what it resolved with
versionsPackument ==
    /\ pc = "packument"
    /\ \E found \in Lookups :
         /\ lookup' = found
         /\ IF found.settled = "rejected"
            THEN IF found.code = "E404"
                 THEN pc' = "verify" /\ UNCHANGED <<outcome, outputs>>
                 ELSE pc' = "idle" /\ outcome' = "failed" /\ UNCHANGED outputs
            ELSE IF ~found.hasVersions
            THEN pc' = "idle" /\ outcome' = "failed" /\ UNCHANGED outputs
            ELSE IF Len(found.versions) = 0
            THEN /\ outputs' = removedOutputs("package has no published versions")
                 /\ outcome' = "succeeded"
                 /\ pc' = "idle"
            ELSE pc' = "filter" /\ UNCHANGED <<outcome, outputs>>
    /\ versionsFrame
    /\ UNCHANGED <<existing, runHash, check, verified>>

\* fetch(registryUrl) after an E404
versionsVerify ==
    /\ pc = "verify"
    /\ \E status \in Statuses :
         /\ verified' = status
         /\ IF status # -1 /\ confirmed(status)
            THEN /\ outputs' = removedOutputs("package no longer exists on npm")
                 /\ outcome' = "succeeded"
            ELSE /\ outcome' = "failed"
                 /\ UNCHANGED outputs
    /\ pc' = "idle"
    /\ versionsFrame
    /\ UNCHANGED <<existing, runHash, check, lookup>>

\* the stored histories are read and filtered, missingRepros is written
versionsFilter ==
    /\ pc = "filter"
    /\ existing' = JSONparse(disk)
    /\ \E tool \in ToolVersions, h \in Hashes :
         /\ runHash' = h
         /\ check' = [tool |-> tool, hash |-> h, selected |-> missingRepros(disk, tool, h)]
         /\ outputs' = Outputs({"missingRepros"},
                               missingReprosList(lookup.versions, disk, tool, h),
                               "unset", "unset")
    /\ outcome' = "succeeded"
    /\ pc' = "idle"
    /\ versionsFrame
    /\ UNCHANGED <<lookup, verified>>

NextVersions ==
    \/ versionsPackument
    \/ versionsVerify
    \/ versionsFilter

SpecVersions == InitVersions /\ [][NextVersions]_vars

Confirmed404 ==
    /\ lookup.settled = "rejected"
    /\ lookup.code = "E404"
    /\ verified = 404

NoPublishedVersions ==
    /\ lookup.settled = "resolved"
    /\ lookup.hasVersions
    /\ lookup.versions = <<>>

\* C29: the removed flag is set (with an empty work list and a successful
\* exit) only after a not-found that the registry confirmed with 404 or
\* for a package with no published versions; every other failed lookup
\* ends the script with an error and writes no output.
C29_RemovedOnlyWhenConfirmed ==
    /\ outputs.removed = "true" =>
         /\ Confirmed404 \/ NoPublishedVersions
         /\ outputs.missingRepros = <<>>
         /\ "missingRepros" \in outputs.written
         /\ outcome = "succeeded"
         /\ pc = "idle"
    /\ (pc = "idle" /\ lookup.settled = "rejected" /\ ~Confirmed404) =>
         /\ outcome = "failed"
         /\ outputs = NoOutputs

\* pacote reported E404, the registry answered 404, the package is removed
C29_Witness ==
    /\ Confirmed404
    /\ outputs.removed = "true"
    /\ outcome = "succeeded"
    /\ disk # <<>>

(***************************************************************************)
(* The normalization of repository URLs (SpecUrl)                          *)
(***************************************************************************)
Pieces == {"git+", "git://", "ssh://", "https://", "git@"}

Prefixes == UNION {[1..n -> Pieces] : n \in 0..MaxPieces}

\* repository URLs of manifests: any pieces, a host, "/" or ":" after it,
\* the path org/repo with or without ".git"
Urls ==
    {Url(prefix, host, sep, <<"org", "repo">>, dotgit) :
        prefix \in Prefixes, host \in {"github.com", "gitlab.com"},
        sep \in {"/", ":"}, dotgit \in BOOLEAN}

InitUrl ==
    /\ pc = "normalize"
    /\ script = "none"
    /\ outcome = "none"
    /\ runs = 0
    /\ disk = <<>>
    /\ existing = <<>>
    /\ packed = "none"
    /\ npmVersion = NoVersion
    /\ buildError = "none"
    /\ returned = "pending"
    /\ result = NoResult
    /\ runHash = NoHash
    /\ installs = {}
    /\ attempt = 0
    /\ check = NoCheck
    /\ ReproduceIdle
    /\ CompareIdle
    /\ DedupeIdle
    /\ MultiIdle
    /\ BuildIdle
    /\ FetchIdle
    /\ LookupIdle
    /\ StudyIdle
    /\ given \in Urls
    /\ normal = NoUrl
    /\ renormal = NoUrl

\* the URL of the manifest is normalized
urlNormalize ==
    /\ pc = "normalize"
    /\ normal' = normalizedUrl(given)
    /\ pc' = "renormalize"
    /\ UNCHANGED <<script, outcome, runs, disk, existing, packed, npmVersion, buildError,
                   returned, result, runHash, installs, attempt, check, reproduceVars,
                   compareVars, dedupeVars, multiVars, buildVars, fetchVars, lookupVars,
                   studyVars, given, renormal>>

\* the normalized URL is normalized once more
urlRenormalize ==
    /\ pc = "renormalize"
    /\ renormal' = normalizedUrl(normal)
    /\ pc' = "idle"
    /\ UNCHANGED <<script, outcome, runs, disk, existing, packed, npmVersion, buildError,
                   returned, result, runHash, installs, attempt, check, reproduceVars,
                   compareVars, dedupeVars, multiVars, buildVars, fetchVars, lookupVars,
                   studyVars, given, normal>>

NextUrl ==
    \/ urlNormalize
    \/ urlRenormalize

SpecUrl == InitUrl /\ [][NextUrl]_vars

\* https://github.com/org/repo.git
CanonicalUrl == Url(<<"https://">>, "github.com", "/", <<"org", "repo">>, TRUE)

\* git@github.com:org/repo.git, ssh://git@github.com/org/repo.git,
\* git+https://github.com/org/repo.git, git://github.com/org/repo.git,
\* git+ssh://git@github.com/org/repo.git, https://github.com/org/repo.git
GithubForms ==
    {Url(<<"git@">>, "github.com", ":", <<"org", "repo">>, TRUE)}
        \cup {Url(prefix, "github.com", "/", <<"org", "repo">>, TRUE) :
                 prefix \in {<<"ssh://", "git@">>, <<"git+", "https://">>, <<"git://">>,
                             <<"git+", "ssh://", "git@">>, <<"https://">>}}

\* the listed forms all normalize to https://github.com/org/repo.git, and
\* the host is kept
FormsNormalizeToCanonical ==
    pc = "idle" =>
        /\ normal.host = given.host
        /\ given \in GithubForms => normal = CanonicalUrl

\* C30: normalizing a normalized URL changes nothing, the host is kept, and
\* the six listed forms of the github URL normalize to
\* https://github.com/org/repo.git.
C30_NormalizeIdempotent ==
    pc = "idle" =>
        /\ renormal = normal
        /\ normal.host = given.host
        /\ given \in GithubForms => normal = CanonicalUrl

(***************************************************************************)
(* getTier of the cli (SpecTier)                                           *)
(***************************************************************************)
\* TIERS, minScore in ten-thousandths
TIERS ==
    << [minScore |-> 10000, name |-> "Perfect"],
       [minScore |-> 9900, name |-> "Excellent"],
       [minScore |-> 9000, name |-> "Good"],
       [minScore |-> 0, name |-> "High Risk"] >>

Scores ==
    {Arg("number", FALSE, n) : n \in -50..MaxScore}
        \cup {Arg("number", TRUE, 0)}
        \cup {Arg(type, FALSE, 0) : type \in {"null", "undefined", "string", "object"}}

\* mutant: a tier is reached only above its threshold
exceeds(arg, minScore) == ~arg.nan /\ arg.value > minScore

\* score >= tier.minScore (false for NaN)
reaches(arg, minScore) == ~arg.nan /\ arg.value >= minScore

RECURSIVE getTierFrom(_, _)
getTierFrom(arg, i) ==
    IF i > Len(TIERS) THEN "High Risk"
    ELSE IF reaches(arg, TIERS[i].minScore) THEN TIERS[i].name
    ELSE getTierFrom(arg, i + 1)

getTier(arg) ==
    IF arg.type \in {"null", "undefined"} \/ arg.type # "number"
    THEN "Unknown"
    ELSE getTierFrom(arg, 1)

InitTier ==
    /\ pc = "getTier"
    /\ script = "none"
    /\ outcome = "none"
    /\ runs = 0
    /\ disk = <<>>
    /\ existing = <<>>
    /\ packed = "none"
    /\ npmVersion = NoVersion
    /\ buildError = "none"
    /\ returned = "pending"
    /\ result = NoResult
    /\ runHash = NoHash
    /\ installs = {}
    /\ attempt = 0
    /\ check = NoCheck
    /\ ReproduceIdle
    /\ CompareIdle
    /\ DedupeIdle
    /\ MultiIdle
    /\ BuildIdle
    /\ FetchIdle
    /\ LookupIdle
    /\ UrlIdle
    /\ InstallIdle
    /\ SearchIdle
    /\ LoadIdle
    /\ RefIdle
    /\ CheckoutIdle
    /\ SummaryIdle
    /\ tierInput \in Scores
    /\ tierName = "none"

\* everything but the position and the variables of one study
studyFrame == UNCHANGED <<script, outcome, runs, packed, npmVersion, buildError, returned,
                          runHash, installs, check, compareVars, dedupeVars, multiVars,
                          buildVars, lookupVars, urlVars>>

getTierCall ==
    /\ pc = "getTier"
    /\ tierName' = getTier(tierInput)
    /\ pc' = "idle"
    /\ studyFrame
    /\ UNCHANGED <<disk, existing, result, attempt, reproduceVars, fetchVars, tierInput,
                   installVars, searchVars, loadVars, refVars, checkoutVars, summaryVars>>

NextTier == getTierCall

SpecTier == InitTier /\ [][NextTier]_vars

\* C31: for a number, getTier returns the name of the first tier whose
\* minScore is at most the score (Perfect at 1, Excellent at 0.99, Good at
\* 0.9, High Risk at 0) and High Risk below 0; for null, undefined and every
\* non-number it returns Unknown.
C31_GetTierFirstTierReached ==
    /\ [i \in 1..Len(TIERS) |-> <<TIERS[i].name, TIERS[i].minScore>>]
         = << <<"Perfect", 10000>>, <<"Excellent", 9900>>, <<"Good", 9000>>,
              <<"High Risk", 0>> >>
    /\ pc = "idle" =>
         IF tierInput.type # "number"
         THEN tierName = "Unknown"
         ELSE IF tierInput.nan
         THEN TRUE
         ELSE IF tierInput.value < 0
         THEN tierName = "High Risk"
         ELSE \E i \in 1..Len(TIERS) :
                /\ TIERS[i].minScore <= tierInput.value
                /\ \A j \in 1..(i - 1) : TIERS[j].minScore > tierInput.value
                /\ tierName = TIERS[i].name

\* the score 0.99 is Excellent
C31_Witness ==
    /\ pc = "idle"
    /\ tierInput = Arg("number", FALSE, 9900)
    /\ tierName = "Excellent"

(***************************************************************************)
(* The order of the provisioning attempts (SpecBuild)                      *)
(***************************************************************************)
\* C35: ensureNodeVersion asks for the exact version, then for the same
\* major line, then for the next major line, each only after the one before
\* failed; it stops at the first success and makes at most three attempts.
C35_ProvisioningOrder ==
    /\ Len(tried) <= 3
    /\ Len(tried) >= 1 => tried[1].request = Request("exact", originalNodeVersion)
    /\ Len(tried) >= 2 =>
         tried[2].request = Request("major", V(originalNodeVersion[1], 0, 0, ""))
    /\ Len(tried) >= 3 =>
         tried[3].request = Request("major", V(originalNodeVersion[1] + 1, 0, 0, ""))
    /\ \A i \in 1..(Len(tried) - 1) : tried[i].installed = NoVersion
    /\ (tried # <<>> /\ tried[Len(tried)].installed # NoVersion) =>
         /\ pc # "ensureNodeVersion"
         /\ installedNodeVersion = tried[Len(tried)].installed
    /\ (pc = "ensureNodeVersion") => installedNodeVersion = NoVersion

\* the exact version and its major line failed, the next major line was
\* installed
C35_Witness ==
    /\ Len(tried) = 3
    /\ tried[3].installed # NoVersion
    /\ installedNodeVersion = V(originalNodeVersion[1] + 1, 9, 0, "")

(***************************************************************************)
(* installWithRetry and removeDep on a manifest (SpecInstall)              *)
(***************************************************************************)
depTypes == <<"dependencies", "devDependencies", "peerDependencies", "optionalDependencies">>

\* a package name: its scope ("" when unscoped) and its bare name
Dep(scope, name) == [scope |-> scope, name |-> name]

NoDep == Dep("", "")

DepX == Dep("", "x")

DepScoped == Dep("s", "y")

DepZ == Dep("", "z")

\* a dependency of a dependency: no section of the manifest declares it
DepTransitive == Dep("", "t")

\* the key of a package in a dependency section, as pieces of text
depKey(dep) ==
    IF dep.scope = "" THEN <<dep.name>> ELSE <<"@", dep.scope, "/", dep.name>>

\* what npm prints after "No matching version found for "
pkgSpecText(dep) == depKey(dep) \o <<"@", "2.0.0">>

\* the sections a package is declared in, for each package
PackageJson(sectionsOfX, sectionsOfScoped) ==
    [section \in {depTypes[i] : i \in 1..Len(depTypes)} |->
        (IF section \in sectionsOfX THEN {DepX} ELSE {})
            \cup (IF section \in sectionsOfScoped THEN {DepScoped} ELSE {})
            \cup (IF section = "dependencies" THEN {DepZ} ELSE {})]

PackageJsons ==
    {PackageJson(sx, ss) :
        sx \in {{}, {"dependencies"}, {"devDependencies", "peerDependencies"},
                {"dependencies", "devDependencies", "peerDependencies",
                 "optionalDependencies"}},
        ss \in {{}, {"dependencies"}, {"optionalDependencies"}}}

declared(pkgJson) == UNION {pkgJson[section] : section \in DOMAIN pkgJson}

\* what one `npm install` did: "ok", "notarget" citing a package, or "other"
Outcome(kind, dep) == [kind |-> kind, dep |-> dep]

\* the outcomes an install of the manifest can have
Outcomes(pkgJson) ==
    {Outcome("ok", NoDep), Outcome("other", NoDep)}
        \cup {Outcome("notarget", dep) : dep \in declared(pkgJson) \cup {DepTransitive}}

\* mutant: the pattern also accepts a name that starts with "@"
pkgSpecAny(text) == TRUE

\* output.match(/No matching version found for (?<pkgSpec>[^\s@]+@[^\s]+)/):
\* the text after "for " has to start with a character other than "@"
pkgSpecMatches(text) == Head(text) # "@"

\* match.groups.pkgSpec.split('@')[0]
failedDep(text) == <<Head(text)>>

\* mutant: only `dependencies` is edited
removeDepFirstSection(pkgJson, depName) ==
    [section \in DOMAIN pkgJson |->
        IF section = depTypes[1]
        THEN {dep \in pkgJson[section] : depKey(dep) # depName}
        ELSE pkgJson[section]]

\* removeDep: delete pkgJson[depType][depName] for every depType
removeDep(pkgJson, depName) ==
    [section \in DOMAIN pkgJson |-> {dep \in pkgJson[section] : depKey(dep) # depName}]

InitInstall ==
    /\ pc = "installWithRetry"
    /\ script = "cache-version"
    /\ outcome = "none"
    /\ runs = 1
    /\ disk = <<>>
    /\ existing = <<>>
    /\ packed = "none"
    /\ npmVersion = NoVersion
    /\ buildError = "none"
    /\ returned = "result"
    /\ result = NoResult
    /\ runHash = NoHash
    /\ installs = {}
    /\ attempt = 0
    /\ check = NoCheck
    /\ ReproduceIdle
    /\ CompareIdle
    /\ DedupeIdle
    /\ MultiIdle
    /\ BuildIdle
    /\ FetchIdle
    /\ LookupIdle
    /\ UrlIdle
    /\ TierIdle
    /\ SearchIdle
    /\ LoadIdle
    /\ RefIdle
    /\ CheckoutIdle
    /\ SummaryIdle
    /\ manifest \in PackageJsons
    /\ installedWith = <<>>

\* one pass of the loop of installWithRetry
retryInstall ==
    /\ pc = "installWithRetry"
    /\ IF attempt > maxRetries
       THEN /\ pc' = "idle"
            /\ UNCHANGED <<attempt, thrown, caught, manifest, installedWith>>
       ELSE \E out \in Outcomes(manifest) :
              /\ installedWith' = Append(installedWith, [on |-> manifest, out |-> out])
              /\ IF out.kind = "ok"
                 THEN /\ pc' = "idle"
                      /\ UNCHANGED <<attempt, thrown, caught, manifest>>
                 ELSE /\ caught' = Error(out.kind, attempt)
                      /\ IF out.kind = "notarget" /\ pkgSpecMatches(pkgSpecText(out.dep))
                            /\ mayRetry(attempt)
                         THEN /\ manifest' = removeDep(manifest, failedDep(pkgSpecText(out.dep)))
                              /\ attempt' = attempt + 1
                              /\ UNCHANGED <<pc, thrown>>
                         ELSE /\ thrown' = caught'
                              /\ pc' = "idle"
                              /\ UNCHANGED <<attempt, manifest>>
    /\ studyFrame
    /\ UNCHANGED <<disk, existing, result, reproduceVars, tempDir, candidates, clonedFrom,
                   executed, persisted, tierVars, searchVars, loadVars, refVars,
                   checkoutVars, summaryVars>>

NextInstall == retryInstall

SpecInstall == InitInstall /\ [][NextInstall]_vars

\* the manifest without any declaration of the package
Without(pkgJson, dep) ==
    [section \in DOMAIN pkgJson |-> pkgJson[section] \ {dep}]

\* C32: after an install failed on an unavailable dependency X, scoped or
\* not, with retries left, the next install runs on the manifest with X
\* removed from every section and nothing else changed; when that install
\* succeeds, installWithRetry returns without error.
C32_RetryRemovesFailedDependency ==
    \A i \in 1..Len(installedWith) :
        (installedWith[i].out.kind = "notarget" /\ i <= maxRetries) =>
            /\ (pc = "idle" \/ i < Len(installedWith)) =>
                 /\ i < Len(installedWith)
                 /\ installedWith[i + 1].on = Without(installedWith[i].on, installedWith[i].out.dep)
            /\ (i < Len(installedWith) /\ installedWith[i + 1].out.kind = "ok") =>
                 thrown = NoError

\* the declarations of a manifest, counted over its sections
Declarations(pkgJson) ==
    {pair \in (DOMAIN pkgJson) \X declared(pkgJson) : pair[2] \in pkgJson[pair[1]]}

\* C39: every retried install runs on a manifest with strictly fewer
\* declared dependencies than the manifest of the attempt that failed.
C39_RetryMakesProgress ==
    \A i \in 2..Len(installedWith) :
        /\ Declarations(installedWith[i].on) \subseteq Declarations(installedWith[i - 1].on)
        /\ Declarations(installedWith[i].on) # Declarations(installedWith[i - 1].on)

(***************************************************************************)
(* cloneWithFallback and the search of findWorkingRepoUrl (SpecFallback)   *)
(***************************************************************************)
\* the published versions of the packument, 1 the oldest
PublishedVersions == 1..MaxVersions

\* https://github.com/org/repo
RepoWithoutDotGit == Url(<<"https://">>, "github.com", "/", <<"org", "repo">>, FALSE)

\* https://github.com/org/moved.git
MovedUrl == Url(<<"https://">>, "github.com", "/", <<"org", "moved">>, TRUE)

\* git@github.com:fork/repo.git
ForkUrl == Url(<<"git@">>, "github.com", ":", <<"fork", "repo">>, TRUE)

\* git+https://github.com/org/repo.git
GitPlusHttpsRepo == Url(<<"git+", "https://">>, "github.com", "/", <<"org", "repo">>, TRUE)

\* the repository a version or the packument itself can declare
DeclaredUrls == {NoUrl, RepoWithoutDotGit, GitPlusHttpsRepo, MovedUrl, ForkUrl}

\* pacote.packument(pkgName): repository of each version and of the top level
Packument(versions, top) == [versions |-> versions, top |-> top]

Packuments ==
    {Packument(versions, top) : versions \in [PublishedVersions -> DeclaredUrls],
                                top \in DeclaredUrls}

\* parseSourceLocation(location).cloneUrl
parseSourceLocationCloneUrl(loc) ==
    LET url == normalizeGitUrl(loc)
        github == url.prefix = <<"https://">> /\ url.host = "github.com" /\ url.sep = "/"
    IN IF github /\ Len(url.path) >= 5 /\ url.path[3] = "tree"
       THEN Url(<<"https://">>, "github.com", "/", SubSeq(url.path, 1, 2), TRUE)
       ELSE IF github /\ Len(url.path) >= 4 /\ url.path[3] = "blob"
       THEN Url(<<"https://">>, "github.com", "/", SubSeq(url.path, 1, 2), TRUE)
       ELSE IF ~url.dotgit /\ url.host = "github.com"
       THEN [url EXCEPT !.dotgit = TRUE]
       ELSE url

\* the primary clone URL: parseSourceLocation(result.source.location).cloneUrl
FailedUrl == parseSourceLocationCloneUrl(RepoWithoutDotGit)

\* the URLs a clone or a probe can be made of
CloneUrls == {parseSourceLocationCloneUrl(u) : u \in DeclaredUrls \ {NoUrl}}

\* a collected URL and the version that declared it (0: the top level)
Candidate(url, from) == [url |-> url, from |-> from]

\* mutant: the versions are scanned oldest first
oldestFirst(n) == [i \in 1..n |-> i]

\* versions.sort((a, b) => semverCompare(b, a))
newestFirst(n) == [i \in 1..n |-> n + 1 - i]

seen(acc) == {acc[i].url : i \in 1..Len(acc)}

\* normalized !== currentRepoUrl
differs(normalized, currentRepoUrl) == normalized # currentRepoUrl

\* the loop over the sorted versions: unique normalized URLs, in order
RECURSIVE collectVersions(_, _, _, _, _)
collectVersions(packument, order, i, currentRepoUrl, acc) ==
    IF i > Len(order) THEN acc
    ELSE LET repoUrl == packument.versions[order[i]]
             normalized == normalizeGitUrl(repoUrl)
         IN IF repoUrl # NoUrl /\ normalized \notin seen(acc)
                 /\ differs(normalized, currentRepoUrl)
            THEN collectVersions(packument, order, i + 1, currentRepoUrl,
                                 Append(acc, Candidate(normalized, order[i])))
            ELSE collectVersions(packument, order, i + 1, currentRepoUrl, acc)

\* repoUrls of findWorkingRepoUrl: the versions' URLs, the top-level
\* repository unshifted in front of them
repoUrls(packument, currentRepoUrl) ==
    LET collected == collectVersions(packument, newestFirst(MaxVersions), 1,
                                     currentRepoUrl, <<>>)
        normalized == normalizeGitUrl(packument.top)
    IN IF packument.top # NoUrl /\ normalized \notin seen(collected)
            /\ differs(normalized, currentRepoUrl)
       THEN <<Candidate(normalized, 0)>> \o collected
       ELSE collected

\* for (const url of repoUrls): the probes made, up to the first that
\* isRepoReachable answers true for
RECURSIVE probes(_, _, _)
probes(urls, i, reachable) ==
    IF i > Len(urls) THEN <<>>
    ELSE LET cloneUrl == parseSourceLocationCloneUrl(urls[i].url)
         IN IF cloneUrl \in reachable
            THEN <<Candidate(cloneUrl, urls[i].from)>>
            ELSE <<Candidate(cloneUrl, urls[i].from)>> \o probes(urls, i + 1, reachable)

\* one git clone: its URL, whether --depth 1, whether it succeeded
Clone(url, shallow, ok) == [url |-> url, shallow |-> shallow, ok |-> ok]

\* the return value of findWorkingRepoUrl
fallbackUrl ==
    IF probed # <<>> /\ probed[Len(probed)].url \in reach
    THEN probed[Len(probed)].url
    ELSE NoUrl

InitFallback ==
    /\ pc = "primaryShallow"
    /\ script = "cache-version"
    /\ outcome = "none"
    /\ runs = 1
    /\ disk = <<>>
    /\ existing = <<>>
    /\ packed = "none"
    /\ npmVersion = NoVersion
    /\ buildError = "none"
    /\ returned = "result"
    /\ result = NoResult
    /\ runHash = NoHash
    /\ installs = {}
    /\ attempt = 0
    /\ check = NoCheck
    /\ ReproduceIdle
    /\ CompareIdle
    /\ DedupeIdle
    /\ MultiIdle
    /\ BuildIdle
    /\ FetchIdle
    /\ LookupIdle
    /\ UrlIdle
    /\ TierIdle
    /\ InstallIdle
    /\ LoadIdle
    /\ RefIdle
    /\ CheckoutIdle
    /\ SummaryIdle
    /\ repos \in Packuments
    /\ reach \in SUBSET CloneUrls
    /\ probed = <<>>
    /\ cloneLog = <<>>

fallbackFrame ==
    /\ studyFrame
    /\ UNCHANGED <<disk, existing, result, attempt, reproduceVars, tempDir, candidates,
                   clonedFrom, caught, executed, persisted, tierVars, installVars,
                   loadVars, refVars, checkoutVars, summaryVars, repos, reach>>

\* a clone of a URL that does not answer fails; one that answers may fail
cloneResults(url) == IF url \in reach THEN BOOLEAN ELSE {FALSE}

\* git clone --depth 1 "${primaryUrl}"
fallbackPrimaryShallow ==
    /\ pc = "primaryShallow"
    /\ \E ok \in cloneResults(FailedUrl) :
         /\ cloneLog' = Append(cloneLog, Clone(FailedUrl, TRUE, ok))
         /\ pc' = IF ok THEN "idle" ELSE "primaryFull"
    /\ UNCHANGED <<probed, thrown>>
    /\ fallbackFrame

\* || git clone "${primaryUrl}"
fallbackPrimaryFull ==
    /\ pc = "primaryFull"
    /\ \E ok \in cloneResults(FailedUrl) :
         /\ cloneLog' = Append(cloneLog, Clone(FailedUrl, FALSE, ok))
         /\ pc' = IF ok THEN "idle" ELSE "search"
    /\ UNCHANGED <<probed, thrown>>
    /\ fallbackFrame

\* findWorkingRepoUrl(pkgName, primaryUrl)
fallbackSearch ==
    /\ pc = "search"
    /\ probed' = probes(repoUrls(repos, FailedUrl), 1, reach)
    /\ IF probed' # <<>> /\ probed'[Len(probed')].url \in reach
       THEN pc' = "fallbackShallow" /\ UNCHANGED thrown
       ELSE pc' = "idle" /\ thrown' = Error(NoReachableRepository, 0)
    /\ UNCHANGED cloneLog
    /\ fallbackFrame

\* git clone --depth 1 "${fallbackUrl}"
fallbackCloneShallow ==
    /\ pc = "fallbackShallow"
    /\ \E ok \in cloneResults(fallbackUrl) :
         /\ cloneLog' = Append(cloneLog, Clone(fallbackUrl, TRUE, ok))
         /\ pc' = IF ok THEN "idle" ELSE "fallbackFull"
    /\ UNCHANGED <<probed, thrown>>
    /\ fallbackFrame

\* || git clone "${fallbackUrl}"
fallbackCloneFull ==
    /\ pc = "fallbackFull"
    /\ \E ok \in cloneResults(fallbackUrl) :
         /\ cloneLog' = Append(cloneLog, Clone(fallbackUrl, FALSE, ok))
         /\ thrown' = IF ok THEN thrown ELSE Error(FallbackFailed, 0)
         /\ pc' = "idle"
    /\ UNCHANGED probed
    /\ fallbackFrame

NextFallback ==
    \/ fallbackPrimaryShallow
    \/ fallbackPrimaryFull
    \/ fallbackSearch
    \/ fallbackCloneShallow
    \/ fallbackCloneFull

SpecFallback == InitFallback /\ [][NextFallback]_vars

\* C33: no URL the fallback search probes or clones is the primary clone URL
\* that has just failed.
C33_FallbackNeverRetriesPrimary ==
    /\ \A i \in 1..Len(probed) : probed[i].url # FailedUrl
    /\ \A i \in 3..Len(cloneLog) : cloneLog[i].url # FailedUrl

\* the primary URL was cloned shallow, then full, and both failed
PrimaryFailed ==
    /\ Len(cloneLog) >= 2
    /\ cloneLog[1] = Clone(FailedUrl, TRUE, FALSE)
    /\ cloneLog[2] = Clone(FailedUrl, FALSE, FALSE)

\* C34: the search starts only after the shallow and the full clone of the
\* primary URL failed; URLs taken from versions are probed newest declaring
\* version first, each probe is of the URL its version declares; the URL
\* cloned is the first probed URL found reachable, and the search gives up
\* only when every collected URL was probed.
C34_SearchOrder ==
    /\ (pc \in {"search", "fallbackShallow", "fallbackFull"} \/ probed # <<>>
            \/ thrown # NoError) => PrimaryFailed
    /\ \A i \in 1..Len(probed) : \A j \in 1..Len(probed) :
         (i < j /\ probed[i].from > 0 /\ probed[j].from > 0) =>
             probed[i].from > probed[j].from
    /\ \A i \in 1..Len(probed) :
         /\ probed[i].from > 0 =>
              probed[i].url = parseSourceLocationCloneUrl(repos.versions[probed[i].from])
         /\ probed[i].from = 0 => i = 1 /\ probed[i].url = parseSourceLocationCloneUrl(repos.top)
         /\ i < Len(probed) => probed[i].url \notin reach
    /\ \A i \in 3..Len(cloneLog) :
         /\ cloneLog[i].url = probed[Len(probed)].url
         /\ cloneLog[i].url \in reach
    /\ thrown.message = NoReachableRepository =>
         \A v \in PublishedVersions :
             (repos.versions[v] # NoUrl /\ normalizeGitUrl(repos.versions[v]) # FailedUrl) =>
                 \E i \in 1..Len(probed) :
                     /\ probed[i].url = parseSourceLocationCloneUrl(repos.versions[v])
                     /\ probed[i].from >= v

\* two versions' URLs were probed, the newer first, and the second one,
\* the first reachable, was cloned
C34_Witness ==
    /\ pc = "idle"
    /\ Len(probed) = 2
    /\ probed[1].from > probed[2].from
    /\ probed[2].from > 0
    /\ Len(cloneLog) = 4
    /\ cloneLog[4].ok
    /\ cloneLog[4].url = probed[2].url

(***************************************************************************)
(* Loading a version's stored history (SpecLoad)                           *)
(***************************************************************************)
SyntaxError == "SyntaxError"

\* await readFile(dataPath, 'utf8').catch(() => '[]'): the text handed to
\* JSON.parse
readFileOrEmpty(content) == IF content = "absent" THEN "[]" ELSE content

\* JSON.parse returns for the text: '[]' and a stored array parse
parses(text) == text \in {"[]", "valid"}

InitLoad ==
    /\ pc = "readFile"
    /\ script = "cache-version"
    /\ outcome = "none"
    /\ runs = 1
    /\ dataFile \in {"absent", "corrupt", "valid"}
    /\ disk \in (IF dataFile = "valid" THEN LoadedHistories ELSE {<<>>})
    /\ existing = <<>>
    /\ packed = "none"
    /\ npmVersion = NoVersion
    /\ buildError = "none"
    /\ returned = "pending"
    /\ result = NoResult
    /\ runHash \in Hashes
    /\ installs = {}
    /\ attempt = 0
    /\ check = NoCheck
    /\ ReproduceIdle
    /\ CompareIdle
    /\ DedupeIdle
    /\ MultiIdle
    /\ BuildIdle
    /\ FetchIdle
    /\ LookupIdle
    /\ UrlIdle
    /\ TierIdle
    /\ InstallIdle
    /\ SearchIdle
    /\ RefIdle
    /\ CheckoutIdle
    /\ SummaryIdle

loadFrame ==
    /\ UNCHANGED <<script, runs, packed, npmVersion, buildError, runHash, installs, attempt,
                   check, reproduceVars, compareVars, dedupeVars, multiVars, buildVars,
                   lookupVars, urlVars, tempDir, candidates, clonedFrom, caught, executed,
                   persisted, tierVars, installVars, searchVars, refVars, checkoutVars,
                   summaryVars>>

\* readFile(dataPath, 'utf8').catch(() => '[]')
loadReadFile ==
    /\ pc = "readFile"
    /\ returned' = readFileOrEmpty(dataFile)
    /\ pc' = "JSON.parse"
    /\ UNCHANGED <<outcome, disk, existing, result, thrown, dataFile>>
    /\ loadFrame

\* const existing = JSON.parse(...): a SyntaxError is caught by nothing
loadParse ==
    /\ pc = "JSON.parse"
    /\ IF parses(returned)
       THEN /\ existing' = JSONparse(IF returned = "[]" THEN <<>> ELSE disk)
            /\ pc' = "reproduce"
            /\ UNCHANGED <<outcome, thrown>>
       ELSE /\ thrown' = Error(SyntaxError, 0)
            /\ outcome' = "failed"
            /\ pc' = "idle"
            /\ UNCHANGED existing
    /\ UNCHANGED <<disk, result, returned, dataFile>>
    /\ loadFrame

\* reproduce and the comparison give the new result
loadReproduce ==
    /\ pc = "reproduce"
    /\ \E e \in Entries : result' = e
    /\ pc' = "persist"
    /\ UNCHANGED <<outcome, disk, existing, returned, thrown, dataFile>>
    /\ loadFrame

\* existing.push(enhancedResult), dedupe, writeFile
loadPersist ==
    /\ pc = "persist"
    /\ existing' = Append(existing, enhancedResult(result, runHash, Len(existing) + 1))
    /\ disk' = deduped(existing')
    /\ outcome' = "persisted"
    /\ pc' = "idle"
    /\ UNCHANGED <<result, returned, thrown, dataFile>>
    /\ loadFrame

NextLoad ==
    \/ loadReadFile
    \/ loadParse
    \/ loadReproduce
    \/ loadPersist

SpecLoad == InitLoad /\ [][NextLoad]_vars

\* C36: when the stored file is absent or its content does not parse, the
\* history loaded is empty, nothing is thrown and the run goes on to append
\* its result and persist.
C36_AbsentOrCorruptLoadsEmpty ==
    (dataFile \in {"absent", "corrupt"} /\ pc \notin {"readFile", "JSON.parse"}) =>
        /\ thrown = NoError
        /\ pc \in {"reproduce", "persist"} => existing = <<>>
        /\ pc = "idle" => outcome = "persisted" /\ Len(disk) = 1

(***************************************************************************)
(* The ref of the source spec, written and read back (SpecRef)             *)
(***************************************************************************)
\* `github:${location}#${ref}${repoPath}` as pieces of text
sourceSpec(src) == <<"github:">> \o src.location \o <<"#">> \o src.ref \o src.repoPath

\* pieces of text that hold a ":"
hasColon(piece) == piece \in {"github:", "::path:", ":path:"}

\* the pieces after the first "#"
RECURSIVE afterHash(_)
afterHash(text) ==
    IF text = <<>> THEN <<>>
    ELSE IF Head(text) = "#" THEN Tail(text)
    ELSE afterHash(Tail(text))

\* (?<ref>[^:]+): the longest run of pieces without a ":"
RECURSIVE refRun(_)
refRun(text) ==
    IF text = <<>> \/ hasColon(Head(text)) THEN <<>>
    ELSE <<Head(text)>> \o refRun(Tail(text))

\* (?::path:.*)?$ : a non-capturing group of ":path:" and the rest, or
\* the end of the text
pathGroupOrEnd(text) == text = <<>> \/ Head(text) = ":path:"

\* sourceSpec.match(/#(?<ref>[^:]+)(?::path:.*)?$/)?.groups?.ref ?? 'HEAD'
extractGitRef(text) ==
    LET rest == afterHash(text)
        ref == refRun(rest)
    IN IF ref # <<>> /\ pathGroupOrEnd(SubSeq(rest, Len(ref) + 1, Len(rest)))
       THEN ref
       ELSE <<"HEAD">>

InitRef ==
    /\ pc = "ref"
    /\ script = "cache-version"
    /\ outcome = "none"
    /\ runs = 1
    /\ disk = <<>>
    /\ existing = <<>>
    /\ packed = "none"
    /\ npmVersion = NoVersion
    /\ buildError = "none"
    /\ returned = "pending"
    /\ result = NoResult
    /\ runHash = NoHash
    /\ installs = {}
    /\ attempt = 0
    /\ check = NoCheck
    /\ mani \in {m \in Manifests : tracked(m)}
    /\ remote = NoRemote
    /\ source = NoSource
    /\ log = {}
    /\ publishTime = "null"
    /\ commands = {}
    /\ CompareIdle
    /\ DedupeIdle
    /\ MultiIdle
    /\ DetailIdle

\* performComparison reads the ref back from result.source.spec
performComparisonRef ==
    /\ pc = "publishTime"
    /\ gitRef' = extractGitRef(sourceSpec(source))
    /\ pc' = "idle"
    /\ studyFrame
    /\ UNCHANGED <<disk, existing, result, attempt, reproduceVars, fetchVars, tierVars,
                   installVars, searchVars, loadVars, checkoutVars, summaryVars>>

NextRef ==
    \/ reproduceRef
    \/ performComparisonRef

SpecRef == InitRef /\ [][NextRef]_vars

\* C37: the ref performComparison extracts from the source spec is the ref
\* reproduce selected when it built the spec, with or without the
\* ::path:<subdir> suffix.
C37_ExtractedRefIsSelectedRef ==
    pc = "idle" => gitRef = source.ref

(***************************************************************************)
(* reproduce: clone directory, fetch and checkout (SpecCheckout)           *)
(***************************************************************************)
\* the repository of `location`, and the repository an earlier version of
\* the package named
ThisRepo == "o/r"

EarlierRepo == "o/r-old"

\* the refs reproduce can have selected
SelectedRefs == (GitHeads \ {<<>>}) \cup {ManiVersion, VTag, <<"HEAD">>}

isCommitId(ref) == ref \in GitHeads

\* the commit the ref of the source spec names in the repository of `location`
named(ref) == IF ref = <<"HEAD">> THEN Commit(ThisRepo, "tip") ELSE Commit(ThisRepo, "ref")

\* what `git fetch --depth 1 origin "${ref}"` leaves in FETCH_HEAD
fetchedRef(origin, ref) ==
    IF ref = <<"HEAD">> THEN Commit(origin, "tip") ELSE Commit(origin, "ref")

\* `git fetch --depth 1 origin "${ref}"` can succeed: the origin holds the
\* ref (a repository of another location holds no commit of this id)
canFetchRef(origin, ref) == origin = ThisRepo \/ ~isCommitId(ref)

InitCheckout ==
    /\ pc = "clone"
    /\ script = "reproduce"
    /\ outcome = "none"
    /\ runs = 1
    /\ disk = <<>>
    /\ existing = <<>>
    /\ packed = "none"
    /\ npmVersion = NoVersion
    /\ buildError = "none"
    /\ returned = "pending"
    /\ result = NoResult
    /\ runHash = NoHash
    /\ installs = {}
    /\ attempt = 0
    /\ check = NoCheck
    /\ mani = NoManifest
    /\ remote = NoRemote
    /\ \E ref \in SelectedRefs, dir \in Directories :
         source = Source(<<"o", "r">>, ref, IF dir # <<>> THEN <<"::path:">> \o dir ELSE <<>>)
    /\ log = {}
    /\ publishTime = PublishTime
    /\ commands = {}
    /\ CompareIdle
    /\ DedupeIdle
    /\ MultiIdle
    /\ BuildIdle
    /\ FetchIdle
    /\ LookupIdle
    /\ UrlIdle
    /\ TierIdle
    /\ InstallIdle
    /\ SearchIdle
    /\ LoadIdle
    /\ RefIdle
    /\ SummaryIdle
    /\ cacheDir \in {"absent", ThisRepo, EarlierRepo}
    /\ workTree = IF cacheDir = "absent" THEN NoCommit ELSE Commit(cacheDir, "old")
    /\ fetchHead \in (IF cacheDir = "absent" THEN {NoCommit}
                      ELSE {NoCommit, Commit(cacheDir, "old")})

checkoutFrame ==
    /\ UNCHANGED <<script, outcome, runs, disk, existing, npmVersion, buildError, returned,
                   result, runHash, installs, attempt, check, reproduceVars, compareVars,
                   dedupeVars, multiVars, buildVars, lookupVars, urlVars, tempDir,
                   candidates, clonedFrom, caught, executed, persisted, tierVars,
                   installVars, searchVars, loadVars, refVars, summaryVars>>

\* if (!existsSync(repoCacheDir)) git clone --depth 1 of the location
reproduceCloneCached ==
    /\ pc = "clone"
    /\ IF cacheDir # "absent"
       THEN pc' = "fetch" /\ UNCHANGED <<cacheDir, workTree, thrown>>
       ELSE \E ok \in BOOLEAN :
              IF ok
              THEN /\ cacheDir' = ThisRepo
                   /\ workTree' = Commit(ThisRepo, "tip")
                   /\ pc' = "fetch"
                   /\ UNCHANGED thrown
              ELSE /\ thrown' = Error("clone", 0)
                   /\ pc' = "idle"
                   /\ UNCHANGED <<cacheDir, workTree>>
    /\ UNCHANGED <<fetchHead, packed>>
    /\ checkoutFrame

\* git fetch --depth 1 origin "${ref}" || git fetch origin || true
reproduceFetch ==
    /\ pc = "fetch"
    /\ \/ /\ canFetchRef(cacheDir, source.ref)
          /\ fetchHead' = fetchedRef(cacheDir, source.ref)
       \/ fetchHead' = Commit(cacheDir, "tip")
       \/ UNCHANGED fetchHead
    /\ pc' = "checkout"
    /\ UNCHANGED <<cacheDir, workTree, thrown, packed>>
    /\ checkoutFrame

\* `git checkout "${ref}"` finds the ref in the directory: HEAD always; a
\* commit id once it was fetched; any ref a directory left by an earlier
\* run may hold
resolves(ref) ==
    IF ref = <<"HEAD">> THEN {TRUE}
    ELSE IF isCommitId(ref) /\ fetchHead = Commit(cacheDir, "ref") THEN {TRUE}
    ELSE IF workTree.name = "old" /\ canFetchRef(cacheDir, ref) THEN BOOLEAN
    ELSE {FALSE}

\* git checkout "${ref}" || git checkout FETCH_HEAD: the commit of the
\* working tree, NoCommit when both fail
checkedOut(ref, found) ==
    IF found
    THEN IF ref = <<"HEAD">> THEN workTree ELSE Commit(cacheDir, "ref")
    ELSE fetchHead

reproduceCheckout ==
    /\ pc = "checkout"
    /\ \E found \in resolves(source.ref) :
         LET commit == checkedOut(source.ref, found)
         IN IF commit = NoCommit
            THEN /\ thrown' = Error("checkout", 0)
                 /\ pc' = "idle"
                 /\ UNCHANGED workTree
            ELSE /\ workTree' = commit
                 /\ pc' = "install"
                 /\ UNCHANGED thrown
    /\ UNCHANGED <<cacheDir, fetchHead, packed>>
    /\ checkoutFrame

\* npmInstall and npmPack in the working tree
reproduceInstallPack ==
    /\ pc = "install"
    /\ \E p \in {"none", "packed"} : packed' = p
    /\ pc' = "idle"
    /\ UNCHANGED <<cacheDir, fetchHead, workTree, thrown>>
    /\ checkoutFrame

NextCheckout ==
    \/ reproduceCloneCached
    \/ reproduceFetch
    \/ reproduceCheckout
    \/ reproduceInstallPack

SpecCheckout == InitCheckout /\ [][NextCheckout]_vars

\* C38: when reproduce goes on to install and pack, the working tree holds
\* the commit the ref of the source spec names in the repository of the
\* location, whatever the fetches did and whatever directory an earlier
\* version left.
C38_BuildRunsOnRecordedRef ==
    (pc = "install" \/ packed # "none") => workTree = named(source.ref)

(***************************************************************************)
(* The per-version summary of the precompute script (SpecSummary)          *)
(***************************************************************************)
summaryOf(entry) == Summary(TRUE, entry.ts, entry.diff)

\* processVersion: `const latest = results[0]`, null when there is none
processVersion(results) ==
    IF results = <<>> THEN NoSummary ELSE summaryOf(results[1])

InitSummary ==
    /\ pc = "processVersion"
    /\ script = "precompute"
    /\ outcome = "none"
    /\ runs = 1
    /\ disk \in StoredHistories
    /\ existing = <<>>
    /\ packed = "none"
    /\ npmVersion = NoVersion
    /\ buildError = "none"
    /\ returned = "pending"
    /\ result = NoResult
    /\ runHash = NoHash
    /\ installs = {}
    /\ attempt = 0
    /\ check = NoCheck
    /\ ReproduceIdle
    /\ CompareIdle
    /\ DedupeIdle
    /\ MultiIdle
    /\ DetailIdle

\* results = JSON.parse(git show origin/data:results/<pkg>/<vDir>)
processVersionCall ==
    /\ pc = "processVersion"
    /\ existing' = JSONparse(disk)
    /\ summary' = processVersion(existing')
    /\ pc' = "idle"
    /\ studyFrame
    /\ UNCHANGED <<disk, result, attempt, reproduceVars, fetchVars, tierVars, installVars,
                   searchVars, loadVars, refVars, checkoutVars>>

NextSummary == processVersionCall

SpecSummary == InitSummary /\ [][NextSummary]_vars

\* C40: for a history sorted ascending by timestamp, the summary of the
\* version is taken from a result with the latest timestamp of the history.
C40_SummaryFromMostRecent ==
    (pc = "idle" /\ disk # <<>>) =>
        \E i \in 1..Len(disk) :
            /\ \A j \in 1..Len(disk) : Date(disk[j].ts) <= Date(disk[i].ts)
            /\ summary = summaryOf(disk[i])

====
